---- MODULE Spec2Model ----
(***************************************************************************)
(* Work-dispatch core of CygnetCI (CygnetCI.Api/main.py): the release and  *)
(* pipeline pickup queues, the approval gate and the aggregation of stage  *)
(* outcomes into the release execution.  Tables are sequences indexed by   *)
(* the primary key; a handler is one action (one committed transaction),   *)
(* and, for the concurrency properties, a begin/commit pair per request.   *)
(***************************************************************************)
EXTENDS Integers, Sequences, FiniteSets, TLC

VARIABLES
    agents,              \* table agents: set of rows [id, uuid, status]
    agent_id_seq,        \* last value of the sequence of agents.id
    release_executions,  \* table release_executions
    stage_executions,    \* table stage_executions
    release_pickup,      \* table release_pickup
    pipeline,            \* the row of table pipelines (status)
    pipeline_executions, \* table pipeline_executions
    pipeline_pickup,     \* table pipeline_pickup
    lastCall,            \* the last handler invocation and its response
    commits,             \* number of committed write transactions so far
    now,                 \* value returned by datetime.now()
    txn,                 \* per request slot: the open session of a handler
    transfer_files,      \* table transfer_files
    transfer_file_pickup \* table transfer_file_pickup

dbvars == <<agents, agent_id_seq, release_executions, stage_executions, release_pickup,
            pipeline, pipeline_executions, pipeline_pickup>>
vars == <<agents, agent_id_seq, release_executions, stage_executions, release_pickup,
          pipeline, pipeline_executions, pipeline_pickup,
          lastCall, commits, now, txn, transfer_files, transfer_file_pickup>>
trvars == <<transfer_files, transfer_file_pickup>>

----------------------------------------------------------------------------
\* Bounds of the model
MaxStageExecutions == 2      \* rows of table stage_executions
MaxPipelineExecutions == 1   \* rows of table pipeline_executions
MaxCommits == 3              \* committed write transactions in a behaviour
MaxClockCommits == 4         \* the same, in the behaviours with a running clock
MaxNow == 2                  \* last value of the clock
MaxTransferPickups == 2      \* rows of table transfer_file_pickup

\* Values of nullable columns
NULL == 0
NoneStr == ""
NoDuration == -1

\* Column defaults of the pickup tables
DefaultRetryCount == 0
DefaultMaxRetries == 3

----------------------------------------------------------------------------
\* Registered agents and the inputs of the handlers

RegisteredAgents ==
    { [id |-> 1, uuid |-> "uuid-1", status |-> "online"],
      [id |-> 2, uuid |-> "uuid-2", status |-> "offline"] }
NoAgent == [id |-> NULL, uuid |-> NoneStr, status |-> NoneStr]

StageAgentIds == {NULL, 1}
RequestAgentIds == {NULL, 2, 3}
PollUuids == {"uuid-1", "uuid-2", "uuid-9"}
ReleaseIds == {1, 2}
ExistingReleaseIds == {1}
PipelineIds == {1, 2}
ExistingPipelineIds == {1}

\* The files uploaded before the pushes (table transfer_files)
UploadedFiles == << [id |-> 1] >>

TransferFileIds == {1, 2}
TransferUuids == {"uuid-1", "uuid-2"}

ReleaseStageRows ==
    [agent_id : StageAgentIds, pre_deployment_approval : BOOLEAN,
     env_requires_approval : BOOLEAN]

\* The stage lists (in order_index order) of a release with at most n stages
StageLists(n) == UNION { [1..k -> ReleaseStageRows] : k \in 1..n }

OneStage ==
    << [agent_id |-> 1, pre_deployment_approval |-> FALSE,
        env_requires_approval |-> FALSE] >>

CompletionData ==
    { [success |-> TRUE, error_message |-> NoneStr],
      [success |-> FALSE, error_message |-> "boom"] }

NoCompletion == [success |-> FALSE, error_message |-> NoneStr]

Call(op, id, uuid, code, stages, agent_id, data, rows) ==
    [op |-> op, id |-> id, uuid |-> uuid, code |-> code, stages |-> stages,
     agent_id |-> agent_id, default_agent_id |-> NULL, data |-> data,
     rows |-> rows]

SimpleCall(op, id, code) ==
    Call(op, id, NoneStr, code, <<>>, NULL, NoCompletion, <<>>)

----------------------------------------------------------------------------
\* Queries

AgentById(id) ==
    IF \E a \in agents : a.id = id
    THEN CHOOSE a \in agents : a.id = id
    ELSE NoAgent

AgentByUuid(uuid) ==
    IF \E a \in agents : a.uuid = uuid
    THEN CHOOSE a \in agents : a.uuid = uuid
    ELSE NoAgent

\* A table is the sequence of the rows ever inserted, at the position of
\* their id; a deleted row stays at its position without its id, which is
\* never given to another row.
DeletedRow(row) == [row EXCEPT !.id = NULL]

\* The ids of the rows of the table
Ids(tbl) == { i \in DOMAIN tbl : tbl[i].id = i }

\* ReleaseStage.order_index of the stage with the given id: the stages of the
\* release are numbered in their order.
StageOrderIndex(release_stage_id) == release_stage_id

PollStatuses == {"pending", "picked_up"}

\* PollFilter with the agent_uuid condition left out
PollFilterAnyAgent(pickup, agent_uuid) ==
    pickup.status \in PollStatuses

PollFilter(pickup, agent_uuid) ==
    /\ pickup.agent_uuid = agent_uuid
    /\ pickup.status \in PollStatuses

\* OrderedBefore for ORDER BY created_at, priority
OrderedBeforeCreatedFirst(a, b) ==
    \/ a.created_at < b.created_at
    \/ a.created_at = b.created_at /\ a.priority <= b.priority

\* ORDER BY priority, created_at
OrderedBefore(a, b) ==
    \/ a.priority < b.priority
    \/ a.priority = b.priority /\ a.created_at <= b.created_at

\* The orders in which the database may return the rows ids of table tbl
\* under ORDER BY priority, created_at (rows with equal keys in any order).
OrderedResults(tbl, ids) ==
    { s \in [1..Cardinality(ids) -> ids] :
        /\ \A i, j \in DOMAIN s : i # j => s[i] # s[j]
        /\ \A i, j \in DOMAIN s : i < j => OrderedBefore(tbl[s[i]], tbl[s[j]]) }

PollRow(pickup) ==
    [pickup_id |-> pickup.id, status |-> pickup.status,
     priority |-> pickup.priority, created_at |-> pickup.created_at]

PollRows(tbl, order) == [i \in DOMAIN order |-> PollRow(tbl[order[i]])]

----------------------------------------------------------------------------
\* deploy_release

\* RequiresApproval that looks at the stage only, not at its environment
RequiresApprovalStageOnly(stage) ==
    stage.pre_deployment_approval

RequiresApproval(stage) ==
    stage.pre_deployment_approval \/ stage.env_requires_approval

\* ResolveStageAgent that always takes the release-level agent
ResolveStageAgentReleaseLevel(stage, agent) ==
    agent

ResolveStageAgent(stage, agent) ==
    IF stage.agent_id # NULL THEN AgentById(stage.agent_id) ELSE agent

NewStageExecution(id, execId, stageId, stage, stage_agent) ==
    [id |-> id,
     release_execution_id |-> execId,
     release_stage_id |-> stageId,
     agent_id |-> stage_agent.id,
     status |-> IF RequiresApproval(stage) THEN "awaiting_approval" ELSE "pending",
     approval_status |-> IF RequiresApproval(stage) THEN "pending" ELSE "not_required",
     started_at |-> NULL,
     completed_at |-> NULL,
     duration_seconds |-> NoDuration]

NewReleasePickup(id, execId, stageExecId, agent, priority) ==
    [id |-> id,
     release_execution_id |-> execId,
     stage_execution_id |-> stageExecId,
     agent_id |-> agent.id,
     agent_uuid |-> agent.uuid,
     status |-> "pending",
     priority |-> priority,
     created_at |-> now,
     picked_up_at |-> NULL,
     started_at |-> NULL,
     completed_at |-> NULL,
     error_message |-> NoneStr,
     retry_count |-> DefaultRetryCount,
     max_retries |-> DefaultMaxRetries]

\* CreatesPickupOnDeploy without the check of the initial status
CreatesPickupOnDeployAnyStatus(stage_agent, initial_status) ==
    stage_agent.id # NULL

CreatesPickupOnDeploy(stage_agent, initial_status) ==
    stage_agent.id # NULL /\ initial_status = "pending"

RECURSIVE DeployStages(_, _, _, _, _, _)
DeployStages(stages, i, execId, agent, ses, pks) ==
    IF i > Len(stages)
    THEN [stage_executions |-> ses, release_pickup |-> pks]
    ELSE LET stage == stages[i]
             stage_agent == ResolveStageAgent(stage, agent)
             se == NewStageExecution(Len(ses) + 1, execId, i, stage, stage_agent)
             pks2 == IF CreatesPickupOnDeploy(stage_agent, se.status)
                     THEN Append(pks, NewReleasePickup(Len(pks) + 1, execId, se.id,
                                                       stage_agent, StageOrderIndex(i)))
                     ELSE pks
         IN DeployStages(stages, i + 1, execId, agent, Append(ses, se), pks2)

NewReleaseExecution(id) ==
    [id |-> id, status |-> "in_progress", started_at |-> now,
     completed_at |-> NULL, duration_seconds |-> NoDuration]

\* The rows of the release tables
ReleaseTables(res, ses, pks) ==
    [release_executions |-> res, stage_executions |-> ses, release_pickup |-> pks]

\* SessionClosed that commits what the session has flushed
SessionClosedCommitting(committed, session) ==
    session

\* The tables after a handler has raised: get_db closes the session without
\* commit, and the rows the session has added and flushed are rolled back.
SessionClosed(committed, session) ==
    committed

\* error_at = i > 0: the flush of the i-th stage execution raises a database
\* error; error_at = 0: no database error.
deploy_release(release_id, stages, agent_id, error_at) ==
    LET call(code) == Call("deploy_release", release_id, NoneStr, code, stages,
                           agent_id, NoCompletion, <<>>)
        execId == Len(release_executions) + 1
        agent == IF agent_id # NULL THEN AgentById(agent_id) ELSE NoAgent
        committed == ReleaseTables(release_executions, stage_executions,
                                   release_pickup)
        \* the session after release_execution is added and flushed
        flushed == Append(release_executions, NewReleaseExecution(execId))
        raised(code, session) ==
            /\ release_executions' = SessionClosed(committed, session).release_executions
            /\ stage_executions' = SessionClosed(committed, session).stage_executions
            /\ release_pickup' = SessionClosed(committed, session).release_pickup
            /\ lastCall' = call(code)
            /\ UNCHANGED <<agents, agent_id_seq, pipeline, pipeline_executions,
                           pipeline_pickup, commits>>
    IN
    IF release_id \notin ExistingReleaseIds
    THEN /\ lastCall' = call(404)
         /\ UNCHANGED <<dbvars, commits>>
    ELSE IF stages = <<>>
    THEN /\ lastCall' = call(400)
         /\ UNCHANGED <<dbvars, commits>>
    ELSE IF agent_id # NULL /\ AgentById(agent_id) = NoAgent
    THEN raised(404, ReleaseTables(flushed, stage_executions, release_pickup))
    ELSE IF error_at \in 1..Len(stages)
    THEN LET res == DeployStages(SubSeq(stages, 1, error_at - 1), 1, execId, agent,
                                 stage_executions, release_pickup)
         IN raised(500, ReleaseTables(flushed, res.stage_executions,
                                      res.release_pickup))
    ELSE /\ Len(stage_executions) + Len(stages) <= MaxStageExecutions
         /\ LET res == DeployStages(stages, 1, execId, agent,
                                    stage_executions, release_pickup)
            IN /\ release_executions' = flushed
               /\ stage_executions' = res.stage_executions
               /\ release_pickup' = res.release_pickup
         /\ lastCall' = call(200)
         /\ commits' = commits + 1
         /\ UNCHANGED <<agents, agent_id_seq, pipeline, pipeline_executions, pipeline_pickup>>

----------------------------------------------------------------------------
\* approve_stage / reject_stage

\* NotPendingApproval without the check
NotPendingApprovalUnchecked(stage_execution) ==
    FALSE

NotPendingApproval(stage_execution) ==
    stage_execution.approval_status # "pending"

approve_stage(stage_execution_id) ==
    IF stage_execution_id \notin DOMAIN stage_executions
    THEN /\ lastCall' = SimpleCall("approve_stage", stage_execution_id, 404)
         /\ UNCHANGED <<dbvars, commits>>
    ELSE IF NotPendingApproval(stage_executions[stage_execution_id])
    THEN /\ lastCall' = SimpleCall("approve_stage", stage_execution_id, 400)
         /\ UNCHANGED <<dbvars, commits>>
    ELSE /\ LET stage_execution == stage_executions[stage_execution_id]
                agent == AgentById(stage_execution.agent_id)
            IN /\ stage_executions' =
                      [stage_executions EXCEPT
                          ![stage_execution_id].approval_status = "approved",
                          ![stage_execution_id].status = "pending"]
               /\ release_pickup' =
                      IF stage_execution.agent_id # NULL /\ agent # NoAgent
                      THEN Append(release_pickup,
                               NewReleasePickup(Len(release_pickup) + 1,
                                   stage_execution.release_execution_id,
                                   stage_execution.id, agent,
                                   StageOrderIndex(stage_execution.release_stage_id)))
                      ELSE release_pickup
         /\ lastCall' = SimpleCall("approve_stage", stage_execution_id, 200)
         /\ commits' = commits + 1
         /\ UNCHANGED <<agents, agent_id_seq, release_executions, pipeline, pipeline_executions,
                        pipeline_pickup>>

\* RejectedRelease that cancels the release execution
RejectedReleaseCancelled(release_execution) ==
    [release_execution EXCEPT !.status = "cancelled", !.completed_at = now]

\* The release execution row after the rejection of one of its stages
RejectedRelease(release_execution) ==
    [release_execution EXCEPT !.status = "failed", !.completed_at = now]

reject_stage(stage_execution_id) ==
    IF stage_execution_id \notin DOMAIN stage_executions
    THEN /\ lastCall' = SimpleCall("reject_stage", stage_execution_id, 404)
         /\ UNCHANGED <<dbvars, commits>>
    ELSE IF NotPendingApproval(stage_executions[stage_execution_id])
    THEN /\ lastCall' = SimpleCall("reject_stage", stage_execution_id, 400)
         /\ UNCHANGED <<dbvars, commits>>
    ELSE /\ LET stage_execution == stage_executions[stage_execution_id]
                rid == stage_execution.release_execution_id
            IN /\ stage_executions' =
                      [stage_executions EXCEPT
                          ![stage_execution_id].approval_status = "rejected",
                          ![stage_execution_id].status = "cancelled"]
               /\ release_executions' =
                      IF rid \in DOMAIN release_executions
                      THEN [release_executions EXCEPT ![rid] = RejectedRelease(@)]
                      ELSE release_executions
         /\ lastCall' = SimpleCall("reject_stage", stage_execution_id, 200)
         /\ commits' = commits + 1
         /\ UNCHANGED <<agents, agent_id_seq, release_pickup, pipeline, pipeline_executions,
                        pipeline_pickup>>

----------------------------------------------------------------------------
\* Release pickup endpoints

\* get_pending_releases that marks the pickups it returns as picked up
get_pending_releases_claiming(agent_uuid) ==
    LET ids == { p \in Ids(release_pickup) :
                   PollFilter(release_pickup[p], agent_uuid) }
    IN /\ AgentByUuid(agent_uuid) # NoAgent
       /\ \E order \in OrderedResults(release_pickup, ids) :
              lastCall' = Call("get_pending_releases", NULL, agent_uuid, 200, <<>>,
                               NULL, NoCompletion, PollRows(release_pickup, order))
       /\ release_pickup' =
              [p \in DOMAIN release_pickup |->
                  IF p \in ids THEN [release_pickup[p] EXCEPT !.status = "picked_up"]
                  ELSE release_pickup[p]]
       /\ UNCHANGED <<agents, agent_id_seq, release_executions, stage_executions,
                      pipeline, pipeline_executions, pipeline_pickup, commits>>

get_pending_releases(agent_uuid) ==
    IF AgentByUuid(agent_uuid) = NoAgent
    THEN /\ lastCall' = Call("get_pending_releases", NULL, agent_uuid, 404, <<>>,
                             NULL, NoCompletion, <<>>)
         /\ UNCHANGED <<dbvars, commits>>
    ELSE /\ \E order \in OrderedResults(release_pickup,
                 { p \in Ids(release_pickup) :
                       PollFilter(release_pickup[p], agent_uuid) }) :
               lastCall' = Call("get_pending_releases", NULL, agent_uuid, 200, <<>>,
                                NULL, NoCompletion, PollRows(release_pickup, order))
         /\ UNCHANGED <<dbvars, commits>>

AcknowledgedPickup(pickup) ==
    [pickup EXCEPT !.status = "picked_up", !.picked_up_at = now]

AcknowledgedStage(stage_execution) ==
    [stage_execution EXCEPT !.status = "in_progress", !.started_at = now]

acknowledge_release_pickup(pickup_id) ==
    IF pickup_id \notin Ids(release_pickup)
    THEN /\ lastCall' = SimpleCall("acknowledge_release_pickup", pickup_id, 404)
         /\ UNCHANGED <<dbvars, commits>>
    ELSE /\ LET sid == release_pickup[pickup_id].stage_execution_id
            IN /\ release_pickup' =
                      [release_pickup EXCEPT ![pickup_id] = AcknowledgedPickup(@)]
               /\ stage_executions' =
                      IF sid \in DOMAIN stage_executions
                      THEN [stage_executions EXCEPT ![sid] = AcknowledgedStage(@)]
                      ELSE stage_executions
         /\ lastCall' = SimpleCall("acknowledge_release_pickup", pickup_id, 200)
         /\ commits' = commits + 1
         /\ UNCHANGED <<agents, agent_id_seq, release_executions, pipeline, pipeline_executions,
                        pipeline_pickup>>

start_release_execution(pickup_id) ==
    IF pickup_id \notin Ids(release_pickup)
    THEN /\ lastCall' = SimpleCall("start_release_execution", pickup_id, 404)
         /\ UNCHANGED <<dbvars, commits>>
    ELSE /\ release_pickup' =
                [release_pickup EXCEPT
                    ![pickup_id].status = "in_progress",
                    ![pickup_id].started_at = now]
         /\ lastCall' = SimpleCall("start_release_execution", pickup_id, 200)
         /\ commits' = commits + 1
         /\ UNCHANGED <<agents, agent_id_seq, release_executions, stage_executions, pipeline,
                        pipeline_executions, pipeline_pickup>>

Duration(started_at, completed_at, old) ==
    IF started_at # NULL THEN completed_at - started_at ELSE old

StageTerminalStatuses == {"succeeded", "failed", "cancelled", "skipped"}

\* all_completed and any_failed over the stage executions of one release
\* execution
AllCompleted(all_stages) ==
    \A s \in all_stages : s.status \in StageTerminalStatuses

\* AnyFailed that counts a cancelled stage as a failure
AnyFailedOrCancelled(all_stages) ==
    \E s \in all_stages : s.status \in {"failed", "cancelled"}

AnyFailed(all_stages) ==
    \E s \in all_stages : s.status = "failed"

StagesOf(ses, release_execution_id) ==
    { ses[i] : i \in { j \in DOMAIN ses :
                         ses[j].release_execution_id = release_execution_id } }

\* The release execution row after the check "all stages complete"
AggregateRelease(release_execution, all_stages) ==
    IF AllCompleted(all_stages)
    THEN [release_execution EXCEPT
             !.status = IF AnyFailed(all_stages) THEN "failed" ELSE "succeeded",
             !.completed_at = now,
             !.duration_seconds =
                 Duration(release_execution.started_at, now, @)]
    ELSE release_execution

\* The stage execution row after complete
CompleteStage(stage_execution, success) ==
    [stage_execution EXCEPT
        !.status = IF success THEN "succeeded" ELSE "failed",
        !.completed_at = now,
        !.duration_seconds = Duration(stage_execution.started_at, now, @)]

\* CompletePickup that completes a pickup in status in_progress only
CompletePickupStartedOnly(pickup, data) ==
    IF pickup.status = "in_progress"
    THEN [pickup EXCEPT
             !.status = IF data.success THEN "completed" ELSE "failed",
             !.completed_at = now,
             !.error_message =
                 IF data.error_message # NoneStr THEN data.error_message ELSE @]
    ELSE pickup

\* CompletePickup that puts a failed pickup back in the queue while it has
\* retries left
CompletePickupRetrying(pickup, data) ==
    IF ~data.success /\ pickup.retry_count < pickup.max_retries
    THEN [pickup EXCEPT !.status = "pending",
                        !.retry_count = @ + 1,
                        !.error_message = data.error_message]
    ELSE [pickup EXCEPT
             !.status = IF data.success THEN "completed" ELSE "failed",
             !.completed_at = now,
             !.error_message =
                 IF data.error_message # NoneStr THEN data.error_message ELSE @]

\* The pickup row after complete
CompletePickup(pickup, data) ==
    [pickup EXCEPT
        !.status = IF data.success THEN "completed" ELSE "failed",
        !.completed_at = now,
        !.error_message =
            IF data.error_message # NoneStr THEN data.error_message ELSE @]

complete_release_pickup(pickup_id, completion_data) ==
    LET call(code) == Call("complete_release_pickup", pickup_id, NoneStr, code,
                           <<>>, NULL, completion_data, <<>>)
    IN
    IF pickup_id \notin Ids(release_pickup)
    THEN /\ lastCall' = call(404)
         /\ UNCHANGED <<dbvars, commits>>
    ELSE /\ LET pickup == release_pickup[pickup_id]
                sid == pickup.stage_execution_id
                rid == pickup.release_execution_id
                ses == IF sid \in DOMAIN stage_executions
                       THEN [stage_executions EXCEPT
                                ![sid] = CompleteStage(@, completion_data.success)]
                       ELSE stage_executions
            IN /\ release_pickup' =
                      [release_pickup EXCEPT
                          ![pickup_id] = CompletePickup(@, completion_data)]
               /\ stage_executions' = ses
               /\ release_executions' =
                      IF rid \in DOMAIN release_executions
                      THEN [release_executions EXCEPT
                               ![rid] = AggregateRelease(@, StagesOf(ses, rid))]
                      ELSE release_executions
         /\ lastCall' = call(200)
         /\ commits' = commits + 1
         /\ UNCHANGED <<agents, agent_id_seq, pipeline, pipeline_executions, pipeline_pickup>>

----------------------------------------------------------------------------
\* run_pipeline and the pipeline pickup endpoints

PipelineAgentIds == {NULL, 1}

NewPipelineExecution(id) ==
    [id |-> id, status |-> "running", started_at |-> now,
     completed_at |-> NULL, duration |-> NoDuration]

NewPipelinePickup(id, execId, agent) ==
    [id |-> id,
     pipeline_execution_id |-> execId,
     agent_id |-> agent.id,
     agent_uuid |-> agent.uuid,
     status |-> "pending",
     priority |-> 0,
     created_at |-> now,
     picked_up_at |-> NULL,
     started_at |-> NULL,
     completed_at |-> NULL,
     error_message |-> NoneStr,
     retry_count |-> DefaultRetryCount,
     max_retries |-> DefaultMaxRetries]

\* ResolvePipelineAgentId that prefers the agent of the pipeline
ResolvePipelineAgentIdDefaultFirst(request_agent_id, pipeline_agent_id) ==
    IF pipeline_agent_id # NULL THEN pipeline_agent_id ELSE request_agent_id

\* request.agent_id if request.agent_id else db_pipeline.agent_id
ResolvePipelineAgentId(request_agent_id, pipeline_agent_id) ==
    IF request_agent_id # NULL THEN request_agent_id ELSE pipeline_agent_id

\* pipeline_agent_id is the agent_id column of the pipeline row
run_pipeline(pipeline_id, pipeline_agent_id, request_agent_id) ==
    LET call(code) == [Call("run_pipeline", pipeline_id, NoneStr, code, <<>>,
                            request_agent_id, NoCompletion, <<>>)
                          EXCEPT !.default_agent_id = pipeline_agent_id]
        agent_id == ResolvePipelineAgentId(request_agent_id, pipeline_agent_id)
    IN
    IF pipeline_id \notin ExistingPipelineIds
    THEN /\ lastCall' = call(404)
         /\ UNCHANGED <<dbvars, commits>>
    ELSE IF agent_id = NULL
    THEN /\ lastCall' = call(400)
         /\ UNCHANGED <<dbvars, commits>>
    ELSE IF AgentById(agent_id) = NoAgent
    THEN /\ lastCall' = call(404)
         /\ UNCHANGED <<dbvars, commits>>
    ELSE /\ Len(pipeline_executions) < MaxPipelineExecutions
         /\ LET execId == Len(pipeline_executions) + 1
            IN /\ pipeline' = [pipeline EXCEPT !.status = "pending"]
               /\ pipeline_executions' =
                      Append(pipeline_executions, NewPipelineExecution(execId))
               /\ pipeline_pickup' =
                      Append(pipeline_pickup,
                             NewPipelinePickup(Len(pipeline_pickup) + 1, execId,
                                               AgentById(agent_id)))
         /\ lastCall' = call(200)
         /\ commits' = commits + 1
         /\ UNCHANGED <<agents, agent_id_seq, release_executions, stage_executions, release_pickup>>

get_pending_pipelines(agent_uuid) ==
    IF AgentByUuid(agent_uuid) = NoAgent
    THEN /\ lastCall' = Call("get_pending_pipelines", NULL, agent_uuid, 404, <<>>,
                             NULL, NoCompletion, <<>>)
         /\ UNCHANGED <<dbvars, commits>>
    ELSE /\ \E order \in OrderedResults(pipeline_pickup,
                 { p \in Ids(pipeline_pickup) :
                       PollFilter(pipeline_pickup[p], agent_uuid) }) :
               lastCall' = Call("get_pending_pipelines", NULL, agent_uuid, 200, <<>>,
                                NULL, NoCompletion, PollRows(pipeline_pickup, order))
         /\ UNCHANGED <<dbvars, commits>>

acknowledge_pipeline_pickup(pickup_id) ==
    IF pickup_id \notin Ids(pipeline_pickup)
    THEN /\ lastCall' = SimpleCall("acknowledge_pipeline_pickup", pickup_id, 404)
         /\ UNCHANGED <<dbvars, commits>>
    ELSE /\ pipeline_pickup' =
                [pipeline_pickup EXCEPT
                    ![pickup_id].status = "picked_up",
                    ![pickup_id].picked_up_at = now]
         /\ lastCall' = SimpleCall("acknowledge_pipeline_pickup", pickup_id, 200)
         /\ commits' = commits + 1
         /\ UNCHANGED <<agents, agent_id_seq, release_executions, stage_executions, release_pickup,
                        pipeline, pipeline_executions>>

start_pipeline_pickup(pickup_id) ==
    IF pickup_id \notin Ids(pipeline_pickup)
    THEN /\ lastCall' = SimpleCall("start_pipeline_pickup", pickup_id, 404)
         /\ UNCHANGED <<dbvars, commits>>
    ELSE /\ LET eid == pipeline_pickup[pickup_id].pipeline_execution_id
            IN /\ pipeline_pickup' =
                      [pipeline_pickup EXCEPT
                          ![pickup_id].status = "in_progress",
                          ![pickup_id].started_at = now]
               /\ pipeline_executions' =
                      IF eid \in DOMAIN pipeline_executions
                      THEN [pipeline_executions EXCEPT ![eid].status = "running"]
                      ELSE pipeline_executions
               /\ pipeline' = [pipeline EXCEPT !.status = "running"]
         /\ lastCall' = SimpleCall("start_pipeline_pickup", pickup_id, 200)
         /\ commits' = commits + 1
         /\ UNCHANGED <<agents, agent_id_seq, release_executions, stage_executions, release_pickup>>

\* The duration is assigned to pipeline_execution.duration_seconds, which is
\* not a column of pipeline_executions: the column duration stays NULL.
complete_pipeline_pickup(pickup_id, completion_data) ==
    LET call(code) == Call("complete_pipeline_pickup", pickup_id, NoneStr, code,
                           <<>>, NULL, completion_data, <<>>)
        result == IF completion_data.success THEN "success" ELSE "failed"
    IN
    IF pickup_id \notin Ids(pipeline_pickup)
    THEN /\ lastCall' = call(404)
         /\ UNCHANGED <<dbvars, commits>>
    ELSE /\ LET eid == pipeline_pickup[pickup_id].pipeline_execution_id
            IN /\ pipeline_pickup' =
                      [pipeline_pickup EXCEPT
                          ![pickup_id].status =
                              IF completion_data.success THEN "completed" ELSE "failed",
                          ![pickup_id].completed_at = now,
                          ![pickup_id].error_message = completion_data.error_message]
               /\ pipeline_executions' =
                      IF eid \in DOMAIN pipeline_executions
                      THEN [pipeline_executions EXCEPT
                               ![eid].status = result,
                               ![eid].completed_at = now]
                      ELSE pipeline_executions
               /\ pipeline' = [pipeline EXCEPT !.status = result]
         /\ lastCall' = call(200)
         /\ commits' = commits + 1
         /\ UNCHANGED <<agents, agent_id_seq, release_executions, stage_executions, release_pickup>>

----------------------------------------------------------------------------
\* delete_agent.  The foreign keys to agents.id decide what happens to the
\* rows that refer to the agent: release_pickup.agent_id and
\* pipeline_pickup.agent_id are ON DELETE CASCADE, stage_executions.agent_id
\* is ON DELETE SET NULL.

\* The pickup table after the delete of the agent
CascadeDelete(tbl, agent_id) ==
    [i \in DOMAIN tbl |->
        IF i \in Ids(tbl) /\ tbl[i].agent_id = agent_id
        THEN DeletedRow(tbl[i])
        ELSE tbl[i]]

\* The table stage_executions after the delete of the agent
SetNullOnDelete(tbl, agent_id) ==
    [i \in DOMAIN tbl |->
        IF tbl[i].agent_id = agent_id THEN [tbl[i] EXCEPT !.agent_id = NULL]
        ELSE tbl[i]]

delete_agent(agent_id) ==
    IF AgentById(agent_id) = NoAgent
    THEN /\ lastCall' = SimpleCall("delete_agent", agent_id, 404)
         /\ UNCHANGED <<dbvars, commits>>
    ELSE /\ agents' = agents \ {AgentById(agent_id)}
         /\ release_pickup' = CascadeDelete(release_pickup, agent_id)
         /\ pipeline_pickup' = CascadeDelete(pipeline_pickup, agent_id)
         /\ stage_executions' = SetNullOnDelete(stage_executions, agent_id)
         /\ lastCall' = SimpleCall("delete_agent", agent_id, 200)
         /\ commits' = commits + 1
         /\ UNCHANGED <<agent_id_seq, release_executions, pipeline,
                        pipeline_executions>>

----------------------------------------------------------------------------
\* Concurrent requests.  Every request runs its handler on a session of its
\* own (get_db): the handler's queries read committed rows, the assignments
\* stay in the session, and db.commit() issues one UPDATE per changed row
\* that sets the attributes whose value differs from the loaded one.

Callers == {1, 2}

IdleTxn ==
    [pc |-> "idle", op |-> "none", id |-> NULL, uuid |-> NoneStr,
     data |-> NoCompletion,
     pickup |-> <<>>, stage |-> <<>>, release |-> <<>>, all_stages |-> {},
     agent |-> NoAgent, code |-> NULL]

OpenTxns == { c \in Callers : txn[c].pc = "open" }

\* The row written by the UPDATE of a flush: the attributes assigned a value
\* different from the loaded one are set, the others keep the current value.
Flush(current, loaded, assigned) ==
    [f \in DOMAIN current |->
        IF assigned[f] # loaded[f] THEN assigned[f] ELSE current[f]]

BeginAcknowledge(c, pickup_id) ==
    /\ txn[c].pc = "idle"
    /\ commits + Cardinality(OpenTxns) < MaxCommits
    /\ pickup_id \in Ids(release_pickup)
    /\ txn' = [txn EXCEPT ![c] =
                  [IdleTxn EXCEPT
                      !.pc = "open",
                      !.op = "acknowledge_release_pickup",
                      !.id = pickup_id,
                      !.pickup = release_pickup[pickup_id],
                      !.stage = stage_executions[
                                    release_pickup[pickup_id].stage_execution_id]]]
    /\ UNCHANGED <<dbvars, lastCall, commits, now, trvars>>

CommitAcknowledge(c) ==
    /\ txn[c].pc = "open"
    /\ txn[c].op = "acknowledge_release_pickup"
    /\ LET t == txn[c]
           sid == t.stage.id
       IN /\ release_pickup' =
                 [release_pickup EXCEPT
                     ![t.id] = Flush(@, t.pickup, AcknowledgedPickup(t.pickup))]
          /\ stage_executions' =
                 [stage_executions EXCEPT
                     ![sid] = Flush(@, t.stage, AcknowledgedStage(t.stage))]
          /\ lastCall' = SimpleCall(t.op, t.id, 200)
    /\ txn' = [txn EXCEPT ![c].pc = "done", ![c].code = 200]
    /\ commits' = commits + 1
    /\ UNCHANGED <<agents, agent_id_seq, release_executions, pipeline, pipeline_executions,
                   pipeline_pickup, now, trvars>>

\* The stage executions of the release as the session of the request sees
\* them: the committed rows, and its own modified stage execution.
SessionStages(own, release_execution_id) ==
    { IF s.id = own.id THEN own ELSE s :
        s \in StagesOf(stage_executions, release_execution_id) }

BeginComplete(c, pickup_id, completion_data) ==
    /\ txn[c].pc = "idle"
    /\ commits + Cardinality(OpenTxns) < MaxCommits
    /\ pickup_id \in Ids(release_pickup)
    /\ LET pickup == release_pickup[pickup_id]
           stage == stage_executions[pickup.stage_execution_id]
           own == CompleteStage(stage, completion_data.success)
       IN txn' = [txn EXCEPT ![c] =
                     [IdleTxn EXCEPT
                         !.pc = "open",
                         !.op = "complete_release_pickup",
                         !.id = pickup_id,
                         !.data = completion_data,
                         !.pickup = pickup,
                         !.stage = stage,
                         !.release = release_executions[pickup.release_execution_id],
                         !.all_stages =
                             SessionStages(own, pickup.release_execution_id)]]
    /\ UNCHANGED <<dbvars, lastCall, commits, now, trvars>>

CommitComplete(c) ==
    /\ txn[c].pc = "open"
    /\ txn[c].op = "complete_release_pickup"
    /\ LET t == txn[c]
       IN /\ release_pickup' =
                 [release_pickup EXCEPT
                     ![t.id] = Flush(@, t.pickup, CompletePickup(t.pickup, t.data))]
          /\ stage_executions' =
                 [stage_executions EXCEPT
                     ![t.stage.id] =
                         Flush(@, t.stage, CompleteStage(t.stage, t.data.success))]
          /\ release_executions' =
                 [release_executions EXCEPT
                     ![t.release.id] =
                         Flush(@, t.release, AggregateRelease(t.release, t.all_stages))]
          /\ lastCall' = Call(t.op, t.id, NoneStr, 200, <<>>, NULL, t.data, <<>>)
    /\ txn' = [txn EXCEPT ![c].pc = "done", ![c].code = 200]
    /\ commits' = commits + 1
    /\ UNCHANGED <<agents, agent_id_seq, pipeline, pipeline_executions, pipeline_pickup, now, trvars>>

\* approve_stage and reject_stage as requests that overlap: the check of
\* approval_status reads the committed row, the assignments and the pickup
\* added stay in the session until db.commit().

\* The stage execution row after approve_stage
ApprovedStage(stage_execution) ==
    [stage_execution EXCEPT !.approval_status = "approved", !.status = "pending"]

\* The stage execution row after reject_stage
RejectedStage(stage_execution) ==
    [stage_execution EXCEPT !.approval_status = "rejected", !.status = "cancelled"]

\* The check of approval_status and, when it passes, the rows the handler
\* loads
BeginApproval(c, op, stage_execution_id) ==
    /\ txn[c].pc = "idle"
    /\ commits + Cardinality(OpenTxns) < MaxCommits
    /\ IF stage_execution_id \notin DOMAIN stage_executions
       THEN /\ txn' = [txn EXCEPT ![c] =
                         [IdleTxn EXCEPT !.pc = "done", !.op = op,
                                         !.id = stage_execution_id, !.code = 404]]
            /\ lastCall' = SimpleCall(op, stage_execution_id, 404)
       ELSE IF NotPendingApproval(stage_executions[stage_execution_id])
       THEN /\ txn' = [txn EXCEPT ![c] =
                         [IdleTxn EXCEPT !.pc = "done", !.op = op,
                                         !.id = stage_execution_id, !.code = 400]]
            /\ lastCall' = SimpleCall(op, stage_execution_id, 400)
       ELSE /\ LET stage == stage_executions[stage_execution_id]
               IN txn' = [txn EXCEPT ![c] =
                            [IdleTxn EXCEPT
                                !.pc = "open", !.op = op,
                                !.id = stage_execution_id,
                                !.stage = stage,
                                !.agent = AgentById(stage.agent_id),
                                !.release =
                                    release_executions[stage.release_execution_id]]]
            /\ UNCHANGED lastCall
    /\ UNCHANGED <<dbvars, commits, now, trvars>>

CommitApprove(c) ==
    /\ txn[c].pc = "open"
    /\ txn[c].op = "approve_stage"
    /\ LET t == txn[c]
       IN /\ stage_executions' =
                 [stage_executions EXCEPT
                     ![t.id] = Flush(@, t.stage, ApprovedStage(t.stage))]
          /\ release_pickup' =
                 IF t.stage.agent_id # NULL /\ t.agent # NoAgent
                 THEN Append(release_pickup,
                          NewReleasePickup(Len(release_pickup) + 1,
                              t.stage.release_execution_id, t.stage.id, t.agent,
                              StageOrderIndex(t.stage.release_stage_id)))
                 ELSE release_pickup
          /\ lastCall' = SimpleCall(t.op, t.id, 200)
    /\ txn' = [txn EXCEPT ![c].pc = "done", ![c].code = 200]
    /\ commits' = commits + 1
    /\ UNCHANGED <<agents, agent_id_seq, release_executions, pipeline,
                   pipeline_executions, pipeline_pickup, now, trvars>>

CommitReject(c) ==
    /\ txn[c].pc = "open"
    /\ txn[c].op = "reject_stage"
    /\ LET t == txn[c]
       IN /\ stage_executions' =
                 [stage_executions EXCEPT
                     ![t.id] = Flush(@, t.stage, RejectedStage(t.stage))]
          /\ release_executions' =
                 [release_executions EXCEPT
                     ![t.release.id] = Flush(@, t.release, RejectedRelease(t.release))]
          /\ lastCall' = SimpleCall(t.op, t.id, 200)
    /\ txn' = [txn EXCEPT ![c].pc = "done", ![c].code = 200]
    /\ commits' = commits + 1
    /\ UNCHANGED <<agents, agent_id_seq, release_pickup, pipeline,
                   pipeline_executions, pipeline_pickup, now, trvars>>

\* create_agent: the query for an agent with the uuid, and, when there is
\* none, the INSERT at db.commit().  The INSERT takes the next value of the
\* sequence of agents.id and fails on the unique index of agents.uuid when a
\* row with the uuid has been committed since the query.

RegisterUuids == {"uuid-1", "uuid-3"}

NewAgent(id, uuid) == [id |-> id, uuid |-> uuid, status |-> "online"]

CreateAgentCall(uuid, code) ==
    Call("create_agent", NULL, uuid, code, <<>>, NULL, NoCompletion, <<>>)

\* UniqueViolation of a table agents without the unique index on uuid
UniqueViolationNoIndex(uuid) ==
    FALSE

\* Column uuid of agents is unique
UniqueViolation(uuid) ==
    \E a \in agents : a.uuid = uuid

BeginCreateAgent(c, uuid) ==
    /\ txn[c].pc = "idle"
    /\ commits + Cardinality(OpenTxns) < MaxCommits
    /\ IF AgentByUuid(uuid) # NoAgent
       THEN /\ txn' = [txn EXCEPT ![c] =
                         [IdleTxn EXCEPT !.pc = "done", !.op = "create_agent",
                                         !.uuid = uuid, !.code = 400]]
            /\ lastCall' = CreateAgentCall(uuid, 400)
       ELSE /\ txn' = [txn EXCEPT ![c] =
                         [IdleTxn EXCEPT !.pc = "open", !.op = "create_agent",
                                         !.uuid = uuid]]
            /\ UNCHANGED lastCall
    /\ UNCHANGED <<dbvars, commits, now, trvars>>

CommitCreateAgent(c) ==
    /\ txn[c].pc = "open"
    /\ txn[c].op = "create_agent"
    /\ agent_id_seq' = agent_id_seq + 1
    /\ IF UniqueViolation(txn[c].uuid)
       THEN /\ txn' = [txn EXCEPT ![c].pc = "done", ![c].code = 500]
            /\ lastCall' = CreateAgentCall(txn[c].uuid, 500)
            /\ UNCHANGED <<agents, commits>>
       ELSE /\ agents' = agents \cup {NewAgent(agent_id_seq + 1, txn[c].uuid)}
            /\ txn' = [txn EXCEPT ![c].pc = "done", ![c].code = 201]
            /\ lastCall' = CreateAgentCall(txn[c].uuid, 201)
            /\ commits' = commits + 1
    /\ UNCHANGED <<release_executions, stage_executions, release_pickup, pipeline,
                   pipeline_executions, pipeline_pickup, now, trvars>>

\* The response is delivered and the request slot takes the next request.
Return(c) ==
    /\ txn[c].pc = "done"
    /\ txn' = [txn EXCEPT ![c] = IdleTxn]
    /\ UNCHANGED <<dbvars, lastCall, commits, now, trvars>>

----------------------------------------------------------------------------
Init ==
    /\ agents = RegisteredAgents
    /\ agent_id_seq = Cardinality(RegisteredAgents)
    /\ release_executions = <<>>
    /\ stage_executions = <<>>
    /\ release_pickup = <<>>
    /\ pipeline = [status |-> "pending"]
    /\ pipeline_executions = <<>>
    /\ pipeline_pickup = <<>>
    /\ lastCall = SimpleCall("none", NULL, 200)
    /\ commits = 0
    /\ now = 1
    /\ txn = [c \in Callers |-> IdleTxn]
    /\ transfer_files = UploadedFiles
    /\ transfer_file_pickup = <<>>

\* Requests that deploy_release fails on: unknown release, release without
\* stages, unknown request agent, database error at the second stage.
RejectedDeployInputs ==
    { <<2, <<>>, NULL, 0>>, <<1, <<>>, NULL, 0>>, <<1, OneStage, 3, 0>>,
      <<1, OneStage \o OneStage, NULL, 2>> }

\* release_stages.agent_id and pipelines.agent_id are foreign keys to
\* agents.id (ON DELETE SET NULL): they are NULL or the id of an agent.
IsAgentRef(agent_id) == agent_id = NULL \/ AgentById(agent_id) # NoAgent

StagesRefAgents(stages) == \A i \in DOMAIN stages : IsAgentRef(stages[i].agent_id)

DeployRelease ==
    /\ \/ \E inp \in RejectedDeployInputs :
              /\ StagesRefAgents(inp[2])
              /\ deploy_release(inp[1], inp[2], inp[3], inp[4])
       \/ /\ Len(stage_executions) < MaxStageExecutions
          /\ commits < MaxCommits
          /\ \E stages \in StageLists(MaxStageExecutions - Len(stage_executions)),
                agent_id \in RequestAgentIds \ {3} :
                /\ StagesRefAgents(stages)
                /\ deploy_release(1, stages, agent_id, 0)
    /\ commits' <= MaxCommits
    /\ UNCHANGED <<now, txn, trvars>>

\* The ids the id-addressed handlers are called with: those of the rows of
\* the table
IdsOf(tbl) == DOMAIN tbl

ApproveStage ==
    /\ \E id \in IdsOf(stage_executions) : approve_stage(id)
    /\ commits' <= MaxCommits
    /\ UNCHANGED <<now, txn, trvars>>

RejectStage ==
    /\ \E id \in IdsOf(stage_executions) : reject_stage(id)
    /\ commits' <= MaxCommits
    /\ UNCHANGED <<now, txn, trvars>>

GetPendingReleases ==
    /\ \E uuid \in PollUuids : get_pending_releases(uuid)
    /\ commits' <= MaxCommits
    /\ UNCHANGED <<now, txn, trvars>>

AcknowledgeReleasePickup ==
    /\ \E id \in IdsOf(release_pickup) : acknowledge_release_pickup(id)
    /\ commits' <= MaxCommits
    /\ UNCHANGED <<now, txn, trvars>>

StartReleaseExecution ==
    /\ \E id \in IdsOf(release_pickup) : start_release_execution(id)
    /\ commits' <= MaxCommits
    /\ UNCHANGED <<now, txn, trvars>>

CompleteReleasePickup ==
    /\ \E id \in IdsOf(release_pickup), data \in CompletionData :
           complete_release_pickup(id, data)
    /\ commits' <= MaxCommits
    /\ UNCHANGED <<now, txn, trvars>>

\* Requests that run_pipeline rejects: unknown pipeline, no agent given,
\* unknown agent.
RejectedRunInputs == { <<2, NULL, NULL>>, <<1, NULL, NULL>>, <<1, 1, 3>> }

RunPipeline ==
    /\ \/ \E inp \in RejectedRunInputs :
              IsAgentRef(inp[2]) /\ run_pipeline(inp[1], inp[2], inp[3])
       \/ /\ Len(pipeline_executions) < MaxPipelineExecutions
          /\ \E pa \in PipelineAgentIds, ra \in RequestAgentIds \ {3} :
                IsAgentRef(pa) /\ run_pipeline(1, pa, ra)
    /\ commits' <= MaxCommits
    /\ UNCHANGED <<now, txn, trvars>>

GetPendingPipelines ==
    /\ \E uuid \in PollUuids : get_pending_pipelines(uuid)
    /\ commits' <= MaxCommits
    /\ UNCHANGED <<now, txn, trvars>>

AcknowledgePipelinePickup ==
    /\ \E id \in IdsOf(pipeline_pickup) : acknowledge_pipeline_pickup(id)
    /\ commits' <= MaxCommits
    /\ UNCHANGED <<now, txn, trvars>>

StartPipelinePickup ==
    /\ \E id \in IdsOf(pipeline_pickup) : start_pipeline_pickup(id)
    /\ commits' <= MaxCommits
    /\ UNCHANGED <<now, txn, trvars>>

CompletePipelinePickup ==
    /\ \E id \in IdsOf(pipeline_pickup), data \in CompletionData :
           complete_pipeline_pickup(id, data)
    /\ commits' <= MaxCommits
    /\ UNCHANGED <<now, txn, trvars>>

Next ==
    \/ DeployRelease
    \/ RunPipeline
    \/ GetPendingPipelines
    \/ AcknowledgePipelinePickup
    \/ StartPipelinePickup
    \/ CompletePipelinePickup
    \/ ApproveStage
    \/ RejectStage
    \/ GetPendingReleases
    \/ AcknowledgeReleasePickup
    \/ StartReleaseExecution
    \/ CompleteReleasePickup

Spec == Init /\ [][Next]_vars

\* Requests of the agents served concurrently, after deployments
ConcAcknowledge ==
    \E c \in Callers, id \in IdsOf(release_pickup) : BeginAcknowledge(c, id)

ConcAcknowledgeCommit == \E c \in Callers : CommitAcknowledge(c)

ConcComplete ==
    \E c \in Callers, id \in IdsOf(release_pickup), data \in CompletionData :
        BeginComplete(c, id, data)

ConcCompleteCommit == \E c \in Callers : CommitComplete(c)

ConcReturn == \E c \in Callers : Return(c)

NextConc ==
    \/ DeployRelease
    \/ ConcAcknowledge
    \/ ConcAcknowledgeCommit
    \/ ConcComplete
    \/ ConcCompleteCommit
    \/ ConcReturn

SpecConc == Init /\ [][NextConc]_vars

----------------------------------------------------------------------------
\* Administration of the agents next to the dispatch of work: agents are
\* registered (concurrently) and deleted while releases and pipelines are
\* deployed, polled and completed.

\* The release deployed has one stage, of agent 1; the pipeline has no
\* default agent and is run on agent 2.
AdminDeployRelease ==
    /\ StagesRefAgents(OneStage)
    /\ deploy_release(1, OneStage, NULL, 0)
    /\ commits' <= MaxCommits
    /\ UNCHANGED <<now, txn, trvars>>

AdminRunPipeline ==
    /\ run_pipeline(1, NULL, 2)
    /\ commits' <= MaxCommits
    /\ UNCHANGED <<now, txn, trvars>>

AdminGetPendingReleases ==
    /\ get_pending_releases("uuid-1")
    /\ UNCHANGED <<now, txn, trvars>>

DeleteAgent ==
    /\ \E a \in agents : delete_agent(a.id)
    /\ commits' <= MaxCommits
    /\ UNCHANGED <<now, txn, trvars>>

AdminCreateAgent ==
    \E c \in Callers, uuid \in RegisterUuids : BeginCreateAgent(c, uuid)

AdminCreateAgentCommit == \E c \in Callers : CommitCreateAgent(c)

NextAdmin ==
    \/ AdminDeployRelease
    \/ AdminRunPipeline
    \/ AdminGetPendingReleases
    \/ CompleteReleasePickup
    \/ CompletePipelinePickup
    \/ DeleteAgent
    \/ AdminCreateAgent
    \/ AdminCreateAgentCommit
    \/ ConcReturn

SpecAdmin == Init /\ [][NextAdmin]_vars

----------------------------------------------------------------------------
\* Administrative cancel of a release pickup.  main.py has no handler for it
\* (status cancelled is declared by check_release_pickup_status only): the
\* operation is the direct write of the specification, pending | picked_up
\* --> cancelled, and is refused in every other status.

CancellableStatuses == {"pending", "picked_up"}

cancel_release_pickup(pickup_id) ==
    IF pickup_id \notin Ids(release_pickup)
    THEN /\ lastCall' = SimpleCall("cancel_release_pickup", pickup_id, 404)
         /\ UNCHANGED <<dbvars, commits>>
    ELSE IF release_pickup[pickup_id].status \notin CancellableStatuses
    THEN /\ lastCall' = SimpleCall("cancel_release_pickup", pickup_id, 409)
         /\ UNCHANGED <<dbvars, commits>>
    ELSE /\ release_pickup' =
                [release_pickup EXCEPT ![pickup_id].status = "cancelled"]
         /\ lastCall' = SimpleCall("cancel_release_pickup", pickup_id, 200)
         /\ commits' = commits + 1
         /\ UNCHANGED <<agents, agent_id_seq, release_executions, stage_executions,
                        pipeline, pipeline_executions, pipeline_pickup>>

CancelReleasePickup ==
    /\ \E id \in IdsOf(release_pickup) : cancel_release_pickup(id)
    /\ commits' <= MaxCommits
    /\ UNCHANGED <<now, txn, trvars>>

NextCancel ==
    \/ DeployRelease
    \/ GetPendingReleases
    \/ AcknowledgeReleasePickup
    \/ StartReleaseExecution
    \/ CompleteReleasePickup
    \/ CancelReleasePickup

SpecCancel == Init /\ [][NextCancel]_vars

----------------------------------------------------------------------------
\* File transfer: a file uploaded to the server is pushed to an agent as a
\* row of transfer_file_pickup, which the agent lists, downloads and
\* acknowledges.

NewTransferFilePickup(id, transfer_file_id, agent_uuid) ==
    [id |-> id,
     transfer_file_id |-> transfer_file_id,
     agent_uuid |-> agent_uuid,
     status |-> "pending",
     requested_at |-> now,
     downloaded_at |-> NULL,
     acknowledged_at |-> NULL,
     error_message |-> NoneStr]

TransferCall(op, id, uuid, code, data, rows) ==
    Call(op, id, uuid, code, <<>>, NULL, data, rows)

push_file_to_agent(transfer_file_id, agent_uuid) ==
    LET call(code, pickup_id) ==
            TransferCall("push_file_to_agent", transfer_file_id, agent_uuid, code,
                         NoCompletion, << [pickup_id |-> pickup_id] >>)
        existing == { p \in Ids(transfer_file_pickup) :
                        /\ transfer_file_pickup[p].transfer_file_id = transfer_file_id
                        /\ transfer_file_pickup[p].agent_uuid = agent_uuid
                        /\ transfer_file_pickup[p].status = "pending" }
        id == Len(transfer_file_pickup) + 1
    IN
    IF transfer_file_id \notin Ids(transfer_files)
    THEN /\ lastCall' = TransferCall("push_file_to_agent", transfer_file_id,
                                     agent_uuid, 404, NoCompletion, <<>>)
         /\ UNCHANGED <<trvars, commits>>
    ELSE IF existing # {}
    THEN /\ \E p \in existing : lastCall' = call(200, p)
         /\ UNCHANGED <<trvars, commits>>
    ELSE /\ transfer_file_pickup' =
                Append(transfer_file_pickup,
                       NewTransferFilePickup(id, transfer_file_id, agent_uuid))
         /\ lastCall' = call(200, id)
         /\ commits' = commits + 1
         /\ UNCHANGED transfer_files

\* The pickups get_agent_downloads lists for the agent
DownloadFilter(pickup, agent_uuid) ==
    /\ pickup.agent_uuid = agent_uuid
    /\ pickup.status = "pending"

\* The orders in which the database may return the rows ids (no ORDER BY)
AnyOrder(ids) ==
    { s \in [1..Cardinality(ids) -> ids] :
        \A i, j \in DOMAIN s : i # j => s[i] # s[j] }

DownloadRow(pickup) ==
    [pickup_id |-> pickup.id, transfer_file_id |-> pickup.transfer_file_id]

get_agent_downloads(agent_uuid) ==
    /\ \E order \in AnyOrder({ p \in Ids(transfer_file_pickup) :
               /\ DownloadFilter(transfer_file_pickup[p], agent_uuid)
               /\ transfer_file_pickup[p].transfer_file_id \in Ids(transfer_files) }) :
           lastCall' = TransferCall("get_agent_downloads", NULL, agent_uuid, 200,
                           NoCompletion,
                           [i \in DOMAIN order |->
                               DownloadRow(transfer_file_pickup[order[i]])])
    /\ UNCHANGED <<trvars, commits>>

\* Downloadable without the check of the status
DownloadableAnyStatus(pickup) ==
    TRUE

\* download_file serves the pickup: pickup.status != "pending" is refused
Downloadable(pickup) ==
    pickup.status = "pending"

\* AcknowledgedDownload that leaves acknowledged_at unset on a failure
AcknowledgedDownloadSuccessOnly(pickup, request) ==
    IF request.success
    THEN [pickup EXCEPT !.acknowledged_at = now, !.status = "downloaded"]
    ELSE [pickup EXCEPT !.status = "failed",
                        !.error_message = request.error_message]

\* The pickup row after acknowledge_download
AcknowledgedDownload(pickup, request) ==
    IF request.success
    THEN [pickup EXCEPT !.acknowledged_at = now, !.status = "downloaded"]
    ELSE [pickup EXCEPT !.status = "failed",
                        !.error_message = request.error_message,
                        !.acknowledged_at = now]

\* on_disk: os.path.exists(transfer_file.file_path)
download_file(pickup_id, on_disk) ==
    LET call(code) == TransferCall("download_file", pickup_id, NoneStr, code,
                                   NoCompletion, <<>>)
    IN
    IF pickup_id \notin Ids(transfer_file_pickup)
    THEN /\ lastCall' = call(404)
         /\ UNCHANGED <<trvars, commits>>
    ELSE IF ~Downloadable(transfer_file_pickup[pickup_id])
    THEN /\ lastCall' = call(400)
         /\ UNCHANGED <<trvars, commits>>
    ELSE IF transfer_file_pickup[pickup_id].transfer_file_id \notin Ids(transfer_files)
    THEN /\ lastCall' = call(404)
         /\ UNCHANGED <<trvars, commits>>
    ELSE IF ~on_disk
    THEN /\ lastCall' = call(404)
         /\ UNCHANGED <<trvars, commits>>
    ELSE /\ transfer_file_pickup' =
                [transfer_file_pickup EXCEPT ![pickup_id].status = "downloaded",
                                             ![pickup_id].downloaded_at = now]
         /\ lastCall' = call(200)
         /\ commits' = commits + 1
         /\ UNCHANGED transfer_files

acknowledge_download(pickup_id, request) ==
    LET call(code) == TransferCall("acknowledge_download", pickup_id, NoneStr, code,
                                   request, <<>>)
    IN
    IF pickup_id \notin Ids(transfer_file_pickup)
    THEN /\ lastCall' = call(404)
         /\ UNCHANGED <<trvars, commits>>
    ELSE /\ transfer_file_pickup' =
                [transfer_file_pickup EXCEPT
                    ![pickup_id] = AcknowledgedDownload(@, request)]
         /\ lastCall' = call(200)
         /\ commits' = commits + 1
         /\ UNCHANGED transfer_files

\* transfer_file_pickup.transfer_file_id is ON DELETE CASCADE
delete_transfer_file(file_id) ==
    IF file_id \notin Ids(transfer_files)
    THEN /\ lastCall' = SimpleCall("delete_transfer_file", file_id, 404)
         /\ UNCHANGED <<trvars, commits>>
    ELSE /\ transfer_files' =
                [transfer_files EXCEPT ![file_id] = DeletedRow(@)]
         /\ transfer_file_pickup' =
                [p \in DOMAIN transfer_file_pickup |->
                    IF p \in Ids(transfer_file_pickup)
                       /\ transfer_file_pickup[p].transfer_file_id = file_id
                    THEN DeletedRow(transfer_file_pickup[p])
                    ELSE transfer_file_pickup[p]]
         /\ lastCall' = SimpleCall("delete_transfer_file", file_id, 200)
         /\ commits' = commits + 1

PushFileToAgent ==
    /\ Len(transfer_file_pickup) < MaxTransferPickups
    /\ \E f \in TransferFileIds, uuid \in TransferUuids : push_file_to_agent(f, uuid)
    /\ commits' <= MaxCommits
    /\ UNCHANGED <<dbvars, now, txn>>

GetAgentDownloads ==
    /\ \E uuid \in TransferUuids : get_agent_downloads(uuid)
    /\ UNCHANGED <<dbvars, now, txn>>

DownloadFile ==
    /\ \E id \in IdsOf(transfer_file_pickup), on_disk \in BOOLEAN :
           download_file(id, on_disk)
    /\ commits' <= MaxCommits
    /\ UNCHANGED <<dbvars, now, txn>>

AcknowledgeDownload ==
    /\ \E id \in IdsOf(transfer_file_pickup), request \in CompletionData :
           acknowledge_download(id, request)
    /\ commits' <= MaxCommits
    /\ UNCHANGED <<dbvars, now, txn>>

DeleteTransferFile ==
    /\ \E f \in TransferFileIds : delete_transfer_file(f)
    /\ commits' <= MaxCommits
    /\ UNCHANGED <<dbvars, now, txn>>

NextTransfer ==
    \/ PushFileToAgent
    \/ GetAgentDownloads
    \/ DownloadFile
    \/ AcknowledgeDownload
    \/ DeleteTransferFile

SpecTransfer == Init /\ [][NextTransfer]_vars

----------------------------------------------------------------------------
\* The handlers with a running clock: datetime.now() advances between the
\* requests.  The releases deployed have stages of agent 1, with or without
\* pre-deployment approval; the pipeline runs on its default agent 1.

Tick ==
    /\ now < MaxNow
    /\ now' = now + 1
    /\ UNCHANGED <<dbvars, lastCall, commits, txn, trvars>>

ClockStageRows ==
    [agent_id : {1}, pre_deployment_approval : BOOLEAN,
     env_requires_approval : {FALSE}]

ClockStageLists(n) == UNION { [1..k -> ClockStageRows] : k \in 1..n }

ClockUuids == {"uuid-1"}

ClockDeployRelease ==
    /\ Len(stage_executions) < MaxStageExecutions
    /\ commits < MaxClockCommits
    /\ \E stages \in ClockStageLists(MaxStageExecutions - Len(stage_executions)) :
           deploy_release(1, stages, NULL, 0)
    /\ UNCHANGED <<now, txn, trvars>>

ClockRunPipeline ==
    /\ run_pipeline(1, 1, NULL)
    /\ commits' <= MaxClockCommits
    /\ UNCHANGED <<now, txn, trvars>>

ClockApproveStage ==
    /\ \E id \in IdsOf(stage_executions) : approve_stage(id)
    /\ commits' <= MaxClockCommits
    /\ UNCHANGED <<now, txn, trvars>>

ClockGetPendingReleases ==
    /\ \E uuid \in ClockUuids : get_pending_releases(uuid)
    /\ UNCHANGED <<now, txn, trvars>>

ClockGetPendingPipelines ==
    /\ \E uuid \in ClockUuids : get_pending_pipelines(uuid)
    /\ UNCHANGED <<now, txn, trvars>>

ClockAcknowledgeReleasePickup ==
    /\ \E id \in IdsOf(release_pickup) : acknowledge_release_pickup(id)
    /\ commits' <= MaxClockCommits
    /\ UNCHANGED <<now, txn, trvars>>

ClockStartReleaseExecution ==
    /\ \E id \in IdsOf(release_pickup) : start_release_execution(id)
    /\ commits' <= MaxClockCommits
    /\ UNCHANGED <<now, txn, trvars>>

ClockCompleteReleasePickup ==
    /\ \E id \in IdsOf(release_pickup), data \in CompletionData :
           complete_release_pickup(id, data)
    /\ commits' <= MaxClockCommits
    /\ UNCHANGED <<now, txn, trvars>>

ClockAcknowledgePipelinePickup ==
    /\ \E id \in IdsOf(pipeline_pickup) : acknowledge_pipeline_pickup(id)
    /\ commits' <= MaxClockCommits
    /\ UNCHANGED <<now, txn, trvars>>

ClockStartPipelinePickup ==
    /\ \E id \in IdsOf(pipeline_pickup) : start_pipeline_pickup(id)
    /\ commits' <= MaxClockCommits
    /\ UNCHANGED <<now, txn, trvars>>

ClockCompletePipelinePickup ==
    /\ \E id \in IdsOf(pipeline_pickup), data \in CompletionData :
           complete_pipeline_pickup(id, data)
    /\ commits' <= MaxClockCommits
    /\ UNCHANGED <<now, txn, trvars>>

NextClock ==
    \/ Tick
    \/ ClockDeployRelease
    \/ ClockRunPipeline
    \/ ClockApproveStage
    \/ ClockGetPendingReleases
    \/ ClockGetPendingPipelines
    \/ ClockAcknowledgeReleasePickup
    \/ ClockStartReleaseExecution
    \/ ClockCompleteReleasePickup
    \/ ClockAcknowledgePipelinePickup
    \/ ClockStartPipelinePickup
    \/ ClockCompletePipelinePickup

SpecClock == Init /\ [][NextClock]_vars

----------------------------------------------------------------------------
\* The approval gate under requests of the administrators that overlap:
\* releases whose stages run on agent 1, with or without pre-deployment
\* approval, are deployed, and their stages are approved and rejected.

ApprovalDeployRelease ==
    /\ Len(stage_executions) < MaxStageExecutions
    /\ commits + Cardinality(OpenTxns) < MaxCommits
    /\ \E stages \in ClockStageLists(MaxStageExecutions - Len(stage_executions)) :
           deploy_release(1, stages, NULL, 0)
    /\ UNCHANGED <<now, txn, trvars>>

ConcApprove ==
    \E c \in Callers, id \in IdsOf(stage_executions) :
        BeginApproval(c, "approve_stage", id)

ConcApproveCommit == \E c \in Callers : CommitApprove(c)

ConcReject ==
    \E c \in Callers, id \in IdsOf(stage_executions) :
        BeginApproval(c, "reject_stage", id)

ConcRejectCommit == \E c \in Callers : CommitReject(c)

NextApproval ==
    \/ ApprovalDeployRelease
    \/ ConcApprove
    \/ ConcApproveCommit
    \/ ConcReject
    \/ ConcRejectCommit
    \/ ConcReturn

SpecApproval == Init /\ [][NextApproval]_vars

----------------------------------------------------------------------------
\* The life of a release with administrators that resolve every pending
\* approval and agents that follow the protocol: an agent acknowledges a
\* pending pickup that its poll returns, starts the pickup it acknowledged
\* and completes the pickup it started.  Handlers run one at a time.

LiveStageRows ==
    [agent_id : StageAgentIds, pre_deployment_approval : BOOLEAN,
     env_requires_approval : {FALSE}]

LiveStageLists(n) == UNION { [1..k -> LiveStageRows] : k \in 1..n }

\* The ids that the rows of stage_executions and release_pickup can have
RowSlots == 1..MaxStageExecutions

LiveDeployRelease ==
    /\ Len(stage_executions) < MaxStageExecutions
    /\ \E stages \in LiveStageLists(MaxStageExecutions - Len(stage_executions)) :
           deploy_release(1, stages, NULL, 0)
    /\ UNCHANGED <<now, txn, trvars>>

AwaitsApproval(s) ==
    /\ s \in DOMAIN stage_executions
    /\ stage_executions[s].approval_status = "pending"

LiveApproveStageOf(s) ==
    /\ AwaitsApproval(s)
    /\ approve_stage(s)
    /\ UNCHANGED <<now, txn, trvars>>

LiveRejectStageOf(s) ==
    /\ AwaitsApproval(s)
    /\ reject_stage(s)
    /\ UNCHANGED <<now, txn, trvars>>

\* The agent of the pickup gets it from get_pending_releases
OfferedByPoll(p) ==
    /\ p \in Ids(release_pickup)
    /\ AgentByUuid(release_pickup[p].agent_uuid) # NoAgent
    /\ PollFilter(release_pickup[p], release_pickup[p].agent_uuid)

AgentAcknowledgeOf(p) ==
    /\ OfferedByPoll(p)
    /\ release_pickup[p].status = "pending"
    /\ acknowledge_release_pickup(p)
    /\ UNCHANGED <<now, txn, trvars>>

AgentStartOf(p) ==
    /\ OfferedByPoll(p)
    /\ release_pickup[p].status = "picked_up"
    /\ start_release_execution(p)
    /\ UNCHANGED <<now, txn, trvars>>

AgentCompleteOf(p) ==
    /\ p \in Ids(release_pickup)
    /\ release_pickup[p].status = "in_progress"
    /\ \E data \in CompletionData : complete_release_pickup(p, data)
    /\ UNCHANGED <<now, txn, trvars>>

NextLive ==
    \/ LiveDeployRelease
    \/ \E s \in RowSlots : LiveApproveStageOf(s)
    \/ \E s \in RowSlots : LiveRejectStageOf(s)
    \/ \E p \in RowSlots : AgentAcknowledgeOf(p)
    \/ \E p \in RowSlots : AgentStartOf(p)
    \/ \E p \in RowSlots : AgentCompleteOf(p)

\* Every pending approval is eventually approved or rejected, and every
\* agent eventually acknowledges, starts and completes its pickups.
FairLive ==
    /\ \A s \in RowSlots : WF_vars(LiveApproveStageOf(s) \/ LiveRejectStageOf(s))
    /\ \A p \in RowSlots : WF_vars(AgentAcknowledgeOf(p))
    /\ \A p \in RowSlots : WF_vars(AgentStartOf(p))
    /\ \A p \in RowSlots : WF_vars(AgentCompleteOf(p))

SpecLive == Init /\ [][NextLive]_vars /\ FairLive

----------------------------------------------------------------------------
\* The lifecycle of the pickups of the releases and of one pipeline run, with
\* agents that report failures with different error messages.

LifecycleData ==
    CompletionData \cup { [success |-> FALSE, error_message |-> "bang"] }

LifecycleCompleteReleasePickup ==
    /\ \E id \in IdsOf(release_pickup), data \in LifecycleData :
           complete_release_pickup(id, data)
    /\ commits' <= MaxCommits
    /\ UNCHANGED <<now, txn, trvars>>

LifecycleCompletePipelinePickup ==
    /\ \E id \in IdsOf(pipeline_pickup), data \in LifecycleData :
           complete_pipeline_pickup(id, data)
    /\ commits' <= MaxCommits
    /\ UNCHANGED <<now, txn, trvars>>

NextLifecycle ==
    \/ DeployRelease
    \/ AdminRunPipeline
    \/ AcknowledgeReleasePickup
    \/ StartReleaseExecution
    \/ LifecycleCompleteReleasePickup
    \/ AcknowledgePipelinePickup
    \/ StartPipelinePickup
    \/ LifecycleCompletePipelinePickup

SpecLifecycle == Init /\ [][NextLifecycle]_vars

----------------------------------------------------------------------------
\* Properties

PickupEdges ==
    { <<"pending", "picked_up">>, <<"picked_up", "in_progress">>,
      <<"in_progress", "completed">>, <<"in_progress", "failed">>,
      <<"pending", "cancelled">>, <<"picked_up", "cancelled">> }

FollowsEdges(old, new) ==
    \A p \in DOMAIN old :
        old[p].status # new[p].status => <<old[p].status, new[p].status>> \in PickupEdges

\* C1: every change of the status of a release pickup or of a pipeline pickup
\* follows an edge of the pickup state machine; in particular completed,
\* failed and cancelled are never left.
C1_PickupTransitionsFollowEdges ==
    [][ /\ FollowsEdges(release_pickup, release_pickup')
        /\ FollowsEdges(pipeline_pickup, pipeline_pickup') ]_vars

RowIds(rows) == { rows[i].pickup_id : i \in DOMAIN rows }

PollReturnsExactly(tbl) ==
    /\ RowIds(lastCall.rows) =
           { p \in DOMAIN tbl :
               /\ tbl[p].agent_uuid = lastCall.uuid
               /\ tbl[p].status \in {"pending", "picked_up"} }
    /\ Cardinality(RowIds(lastCall.rows)) = Len(lastCall.rows)
    /\ \A i \in DOMAIN lastCall.rows :
           /\ lastCall.rows[i].status \in {"pending", "picked_up"}
           /\ lastCall.rows[i].status \notin {"in_progress", "completed", "failed", "cancelled"}

\* C2: the response of a poll (get_pending_releases, get_pending_pipelines)
\* lists exactly the pickups of the table whose agent_uuid is the caller's
\* uuid and whose status is pending or picked_up, each once.
C2_PollReturnsOwnOpenPickups ==
    /\ (lastCall.op = "get_pending_releases" /\ lastCall.code = 200)
           => PollReturnsExactly(release_pickup)
    /\ (lastCall.op = "get_pending_pipelines" /\ lastCall.code = 200)
           => PollReturnsExactly(pipeline_pickup)

\* A poll that returned a pickup and left out both a pickup of another agent
\* and a pickup of the caller that is no longer pending or picked_up.
C2_Witness ==
    /\ lastCall.op = "get_pending_releases"
    /\ lastCall.code = 200
    /\ Len(lastCall.rows) >= 1
    /\ \E p \in DOMAIN release_pickup :
           release_pickup[p].agent_uuid # lastCall.uuid
    /\ \E q \in DOMAIN pipeline_pickup :
           /\ pipeline_pickup[q].agent_uuid = lastCall.uuid
           /\ pipeline_pickup[q].status \in {"in_progress", "completed", "failed"}

ReleaseTerminal == {"succeeded", "failed", "cancelled"}
PipelineTerminal == {"success", "failed", "cancelled"}

\* C3: a release execution or pipeline execution that has reached a terminal
\* status keeps that status in every later step.
C3_ExecutionStatusMonotonic ==
    [][ /\ \A r \in DOMAIN release_executions :
               release_executions[r].status \in ReleaseTerminal
                   => release_executions'[r].status = release_executions[r].status
        /\ \A e \in DOMAIN pipeline_executions :
               pipeline_executions[e].status \in PipelineTerminal
                   => pipeline_executions'[e].status = pipeline_executions[e].status
      ]_vars

StageExecIdsOf(rid) ==
    { s \in DOMAIN stage_executions :
          stage_executions[s].release_execution_id = rid }

StagesTerminalAfter(rid) ==
    \A s \in StageExecIdsOf(rid) :
        stage_executions'[s].status \in {"succeeded", "failed", "cancelled", "skipped"}

\* C4: after a complete call, if all stage executions of the release
\* execution are terminal the release execution is failed when one of them
\* is failed and succeeded otherwise; if one of them is not terminal the
\* status of the release execution is the one before the call.
C4_Aggregation ==
    [][ (lastCall'.op = "complete_release_pickup" /\ lastCall'.code = 200) =>
          LET rid == release_pickup[lastCall'.id].release_execution_id
          IN IF StagesTerminalAfter(rid)
             THEN release_executions'[rid].status =
                      IF \E s \in StageExecIdsOf(rid) :
                             stage_executions'[s].status = "failed"
                      THEN "failed" ELSE "succeeded"
             ELSE release_executions'[rid].status = release_executions[rid].status
      ]_vars

\* The complete call that made the last of two stages terminal, one of them
\* failed, and the release execution failed.
C4_Witness ==
    /\ lastCall.op = "complete_release_pickup"
    /\ lastCall.code = 200
    /\ LET rid == release_pickup[lastCall.id].release_execution_id
       IN /\ Cardinality(StageExecIdsOf(rid)) = 2
          /\ \A s \in StageExecIdsOf(rid) :
                 stage_executions[s].status \in {"succeeded", "failed"}
          /\ \E s \in StageExecIdsOf(rid) : stage_executions[s].status = "failed"
          /\ \E s \in StageExecIdsOf(rid) : stage_executions[s].status = "succeeded"
          /\ release_executions[rid].status = "failed"

----------------------------------------------------------------------------
\* The state right after a successful deploy_release: the request is in
\* lastCall and the new release execution is the last row.

AfterDeploy == lastCall.op = "deploy_release" /\ lastCall.code = 200

NoApproval(stage) ==
    ~stage.pre_deployment_approval /\ ~stage.env_requires_approval

\* The agent the stage is to run on: its own, else the one of the request
ExpectedAgentId(stage) ==
    IF stage.agent_id # NULL THEN stage.agent_id ELSE lastCall.agent_id

StageExecIdsFor(rid, i) ==
    { s \in StageExecIdsOf(rid) : stage_executions[s].release_stage_id = i }

PickupIdsOfStage(s) ==
    { p \in DOMAIN release_pickup : release_pickup[p].stage_execution_id = s }

PickupIdsOfRelease(rid) ==
    { p \in DOMAIN release_pickup : release_pickup[p].release_execution_id = rid }

BoundTo(p, agent_id) ==
    /\ release_pickup[p].agent_id = agent_id
    /\ \E a \in agents : a.id = agent_id /\ a.uuid = release_pickup[p].agent_uuid

\* Stage i of the deployed release has one stage execution, pending, with
\* exactly n pending pickups, bound to the expected agent.
PendingStageWithPickups(rid, i, n) ==
    /\ Cardinality(StageExecIdsFor(rid, i)) = 1
    /\ \A s \in StageExecIdsFor(rid, i) :
           /\ stage_executions[s].status = "pending"
           /\ Cardinality(PickupIdsOfStage(s)) = n
           /\ \A p \in PickupIdsOfStage(s) :
                  /\ release_pickup[p].status = "pending"
                  /\ BoundTo(p, ExpectedAgentId(lastCall.stages[i]))

----------------------------------------------------------------------------
\* Approval gate

GateAtDeploy(n(_)) ==
    AfterDeploy =>
        LET rid == Len(release_executions)
        IN \A i \in DOMAIN lastCall.stages :
               IF NoApproval(lastCall.stages[i])
               THEN PendingStageWithPickups(rid, i, n(lastCall.stages[i]))
               ELSE /\ Cardinality(StageExecIdsFor(rid, i)) = 1
                    /\ \A s \in StageExecIdsFor(rid, i) :
                           /\ stage_executions[s].status = "awaiting_approval"
                           /\ stage_executions[s].approval_status = "pending"
                           /\ PickupIdsOfStage(s) = {}

NoPickupBeforeApproval ==
    \A s \in DOMAIN stage_executions :
        stage_executions[s].approval_status = "pending" => PickupIdsOfStage(s) = {}

GateAtApprove(n(_)) ==
    (lastCall.op = "approve_stage" /\ lastCall.code = 200) =>
        /\ Cardinality(PickupIdsOfStage(lastCall.id)) = n(stage_executions[lastCall.id])
        /\ \A p \in PickupIdsOfStage(lastCall.id) : release_pickup[p].status = "pending"

OneIfStageAgent(stage) == IF ExpectedAgentId(stage) # NULL THEN 1 ELSE 0
OneIfAssigned(stage_execution) == IF stage_execution.agent_id # NULL THEN 1 ELSE 0

C9_RejectCancelsStageAndFailsRelease ==
    /\ (lastCall.op = "reject_stage" /\ lastCall.code = 200) =>
           LET se == stage_executions[lastCall.id]
               re == release_executions[se.release_execution_id]
           IN /\ se.approval_status = "rejected"
              /\ se.status = "cancelled"
              /\ re.status = "failed"
              /\ re.completed_at # NULL
    /\ \A s \in DOMAIN stage_executions :
           stage_executions[s].approval_status = "rejected" => PickupIdsOfStage(s) = {}

\* A rejection while a sibling stage of the release is in progress
C9_Witness ==
    /\ lastCall.op = "reject_stage"
    /\ lastCall.code = 200
    /\ \E s \in StageExecIdsOf(stage_executions[lastCall.id].release_execution_id) :
           /\ s # lastCall.id
           /\ stage_executions[s].status = "in_progress"

\* C10: approve_stage and reject_stage called on a stage execution whose
\* approval_status is not pending respond with an error and change no row;
\* an approval_status of approved or rejected never changes again.
C10_ApprovalResolvedOnce ==
    [][ /\ ( /\ lastCall'.op \in {"approve_stage", "reject_stage"}
             /\ stage_executions[lastCall'.id].approval_status # "pending" )
            => ( /\ lastCall'.code = 400
                 /\ agents' = agents
                 /\ release_executions' = release_executions
                 /\ stage_executions' = stage_executions
                 /\ release_pickup' = release_pickup
                 /\ pipeline_pickup' = pipeline_pickup
                 /\ pipeline_executions' = pipeline_executions )
        /\ \A s \in DOMAIN stage_executions :
               stage_executions[s].approval_status \in {"approved", "rejected"}
                   => stage_executions'[s].approval_status =
                          stage_executions[s].approval_status
      ]_vars

\* A second approve_stage on an approved stage execution, answered 400
C10_Witness ==
    /\ lastCall.op = "approve_stage"
    /\ lastCall.code = 400
    /\ stage_executions[lastCall.id].approval_status = "approved"

----------------------------------------------------------------------------
\* Concurrent requests

\* C5: of two acknowledge requests that both read the pickup as pending, at
\* most one is answered with success.
C5_ConcurrentAcknowledgeOneWins ==
    \A c1, c2 \in Callers :
        ( /\ c1 # c2
          /\ txn[c1].pc = "done" /\ txn[c2].pc = "done"
          /\ txn[c1].op = "acknowledge_release_pickup"
          /\ txn[c2].op = "acknowledge_release_pickup"
          /\ txn[c1].id = txn[c2].id
          /\ txn[c1].pickup.status = "pending"
          /\ txn[c2].pickup.status = "pending" )
        => ~(txn[c1].code = 200 /\ txn[c2].code = 200)

\* C6: when no request is in flight and all stage executions of a release
\* execution are terminal, the release execution is terminal.
C6_AggregationSerialized ==
    \A r \in DOMAIN release_executions :
        ( /\ OpenTxns = {}
          /\ \A s \in StageExecIdsOf(r) :
                 stage_executions[s].status \in {"succeeded", "failed", "cancelled", "skipped"} )
        => release_executions[r].status \in {"succeeded", "failed", "cancelled"}

----------------------------------------------------------------------------
LeftAwaitingApproval == {"pending", "in_progress", "succeeded", "failed"}

\* C11: a stage execution whose status is pending, in_progress, succeeded or
\* failed has approval_status approved or not_required: no sequence of
\* deploy, approve, reject, acknowledge, start and complete calls takes a stage
\* whose approval is pending or rejected out of awaiting_approval/cancelled.
C11_ApprovalBeforeLeavingAwaiting ==
    \A s \in DOMAIN stage_executions :
        stage_executions[s].status \in LeftAwaitingApproval
            => stage_executions[s].approval_status \in {"approved", "not_required"}

\* A stage that needed approval was approved and completed, next to a stage
\* whose approval is still pending or was rejected.
C11_Witness ==
    /\ \E s \in DOMAIN stage_executions :
           /\ stage_executions[s].approval_status = "approved"
           /\ stage_executions[s].status \in {"in_progress", "succeeded", "failed"}
    /\ \E s \in DOMAIN stage_executions :
           stage_executions[s].approval_status \in {"pending", "rejected"}

----------------------------------------------------------------------------
\* The agent id run_pipeline resolves for the call c
ResolvedOf(c) == IF c.agent_id # NULL THEN c.agent_id ELSE c.default_agent_id

\* One row was appended to the table and the rows it had are unchanged
AppendedOne(old, new) ==
    /\ Len(new) = Len(old) + 1
    /\ SubSeq(new, 1, Len(old)) = old

\* C12: run_pipeline for an existing pipeline, with an existing resolved
\* agent (the request's agent id, else the pipeline's default agent) of any
\* liveness status, answers 200 and adds one pipeline execution with status
\* running and exactly one pending pickup bound to that agent and to the new
\* execution; when neither agent id is present it answers 400 and adds no
\* execution and no pickup.
C12_RunPipelineEnqueuesOnePickup ==
    [][ (lastCall'.op = "run_pipeline" /\ lastCall'.id \in ExistingPipelineIds) =>
          LET resolved == ResolvedOf(lastCall')
          IN /\ resolved = NULL =>
                   /\ lastCall'.code = 400
                   /\ UNCHANGED <<pipeline_executions, pipeline_pickup>>
             /\ (\E a \in agents : a.id = resolved) =>
                   /\ lastCall'.code = 200
                   /\ AppendedOne(pipeline_executions, pipeline_executions')
                   /\ AppendedOne(pipeline_pickup, pipeline_pickup')
                   /\ LET execution == pipeline_executions'[Len(pipeline_executions')]
                          pickup == pipeline_pickup'[Len(pipeline_pickup')]
                      IN /\ execution.status = "running"
                         /\ pickup.status = "pending"
                         /\ pickup.pipeline_execution_id = execution.id
                         /\ pickup.agent_id = resolved
                         /\ \E a \in agents :
                                a.id = resolved /\ a.uuid = pickup.agent_uuid ]_vars

\* run_pipeline succeeded with a request agent that differs from the
\* pipeline's default agent and is offline.
C12_Witness ==
    /\ lastCall.op = "run_pipeline"
    /\ lastCall.code = 200
    /\ lastCall.agent_id # NULL
    /\ lastCall.default_agent_id # NULL
    /\ lastCall.agent_id # lastCall.default_agent_id
    /\ \E a \in agents : a.id = lastCall.agent_id /\ a.status = "offline"
    /\ Len(pipeline_pickup) = 1
    /\ pipeline_pickup[1].agent_id = lastCall.agent_id

----------------------------------------------------------------------------
\* The last call completed, with success, the pickup p of the table, which
\* had been acknowledged and started before.
RoundTripDone(op, tbl, p) ==
    /\ lastCall.op = op
    /\ lastCall.code = 200
    /\ lastCall.data.success
    /\ lastCall.id = p
    /\ tbl[p].picked_up_at # NULL
    /\ tbl[p].started_at # NULL

\* Table pipeline_executions spells the status of a successful execution
\* "success", table stage_executions "succeeded".
Succeeded == {"succeeded", "success"}

RoundTripRelease ==
    \A p \in DOMAIN release_pickup :
        RoundTripDone("complete_release_pickup", release_pickup, p) =>
            LET stage == stage_executions[release_pickup[p].stage_execution_id]
            IN /\ release_pickup[p].status = "completed"
               /\ stage.status \in Succeeded
               /\ stage.completed_at # NULL
               /\ stage.duration_seconds = stage.completed_at - stage.started_at

RoundTripPipeline ==
    \A p \in DOMAIN pipeline_pickup :
        RoundTripDone("complete_pipeline_pickup", pipeline_pickup, p) =>
            LET execution ==
                    pipeline_executions[pipeline_pickup[p].pipeline_execution_id]
            IN /\ pipeline_pickup[p].status = "completed"
               /\ execution.status \in Succeeded
               /\ execution.completed_at # NULL
               /\ execution.duration = execution.completed_at - execution.started_at

\* C13: after poll, acknowledge, start and complete(success=true) of a fresh
\* pickup the pickup is completed and the owning execution (stage execution
\* or pipeline execution) is succeeded, has its completion timestamp and has
\* duration = completed_at - started_at.
C13_RoundTrip ==
    /\ RoundTripRelease
    /\ RoundTripPipeline

----------------------------------------------------------------------------
PickupTerminal == {"cancelled", "completed", "failed"}

\* The step is a call of complete (op) on the pickup p of the table, which
\* is in a terminal state
CompleteOnTerminal(op, tbl, p) ==
    /\ tbl[p].status \in PickupTerminal
    /\ lastCall'.op = op
    /\ lastCall'.id = p

\* C14: complete called on a pickup that is cancelled, completed or failed
\* is answered with an error and leaves the pickup's status and error_message,
\* the status of the owning stage execution or pipeline execution and the
\* status of the release execution unchanged.
C14_CompleteOnTerminalRejected ==
    [][ /\ \A p \in DOMAIN release_pickup :
             CompleteOnTerminal("complete_release_pickup", release_pickup, p) =>
                 /\ lastCall'.code # 200
                 /\ release_pickup'[p].status = release_pickup[p].status
                 /\ release_pickup'[p].error_message = release_pickup[p].error_message
                 /\ \A i \in DOMAIN stage_executions :
                        stage_executions'[i].status = stage_executions[i].status
                 /\ \A i \in DOMAIN release_executions :
                        release_executions'[i].status = release_executions[i].status
        /\ \A p \in DOMAIN pipeline_pickup :
             CompleteOnTerminal("complete_pipeline_pickup", pipeline_pickup, p) =>
                 /\ lastCall'.code # 200
                 /\ pipeline_pickup'[p].status = pipeline_pickup[p].status
                 /\ pipeline_pickup'[p].error_message = pipeline_pickup[p].error_message
                 /\ \A i \in DOMAIN pipeline_executions :
                        pipeline_executions'[i].status = pipeline_executions[i].status
      ]_vars

----------------------------------------------------------------------------
\* The stage executions and the pickups of release execution e
StageExecutionsOf(ses, e) == { i \in DOMAIN ses : ses[i].release_execution_id = e }
ReleasePickupsOf(pks, e) == { i \in DOMAIN pks : pks[i].release_execution_id = e }

\* C15: a deploy_release that fails (release not found, no stages, request
\* agent not found after the execution row was flushed, database error inside
\* the stage loop) leaves no release execution, stage execution or pickup
\* row behind; one that succeeds adds the release execution, one stage
\* execution per stage and the pickups of these stage executions, together.
C15_DeployAllOrNothing ==
    [][ lastCall'.op = "deploy_release" =>
          IF lastCall'.code # 200
          THEN UNCHANGED <<release_executions, stage_executions, release_pickup>>
          ELSE LET e == Len(release_executions')
               IN /\ AppendedOne(release_executions, release_executions')
                  /\ SubSeq(stage_executions', 1, Len(stage_executions)) =
                         stage_executions
                  /\ SubSeq(release_pickup', 1, Len(release_pickup)) = release_pickup
                  /\ StageExecutionsOf(stage_executions', e) =
                         Len(stage_executions) + 1 ..
                             Len(stage_executions) + Len(lastCall'.stages)
                  /\ ReleasePickupsOf(release_pickup', e) =
                         Len(release_pickup) + 1 .. Len(release_pickup')
                  /\ DOMAIN stage_executions' =
                         1 .. Len(stage_executions) + Len(lastCall'.stages)
                  /\ \A i \in StageExecutionsOf(stage_executions', e) :
                         (stage_executions'[i].status = "pending"
                              /\ stage_executions'[i].agent_id # NULL)
                           => \E p \in ReleasePickupsOf(release_pickup', e) :
                                  release_pickup'[p].stage_execution_id = i ]_vars

\* A deployment failed on a database error at its second stage, after the
\* execution, the first stage execution and its pickup had been flushed, in
\* a database that holds an earlier deployment.
C15_Witness ==
    /\ lastCall.op = "deploy_release"
    /\ lastCall.code = 500
    /\ Len(lastCall.stages) = 2
    /\ Len(release_executions) = 1
    /\ Len(release_pickup) >= 1

----------------------------------------------------------------------------
\* The rows of the table that are in a terminal state are rows of the table
\* after the step
TerminalRowsKept(old, new) ==
    \A p \in Ids(old) : old[p].status \in PickupTerminal => p \in Ids(new)

\* C16: a release pickup or pipeline pickup that is completed, failed or
\* cancelled is never deleted: in every step, delete_agent included, every
\* terminal pickup of the tables is still a row afterwards.
C16_TerminalPickupsNeverDeleted ==
    [][ /\ TerminalRowsKept(release_pickup, release_pickup')
        /\ TerminalRowsKept(pipeline_pickup, pipeline_pickup') ]_vars

\* No two agents have the same uuid
UuidsUnique == \A a, b \in agents : a.uuid = b.uuid => a = b

\* The registrations answered so far in the request slots
Answered(code) == { c \in Callers : txn[c].op = "create_agent" /\ txn[c].code = code }

\* C19: create_agent answers with an error and leaves the agents unchanged
\* when an agent with the uuid is registered, and otherwise adds the agent
\* with status online; no two agents ever share a uuid, also when two
\* registrations of the same uuid run concurrently.
C19_RegisterUniqueUuid ==
    [][ /\ UuidsUnique'
        /\ \A c \in Callers :
              (txn[c].pc # "done" /\ txn'[c].pc = "done"
                                 /\ txn'[c].op = "create_agent") =>
                  IF \E a \in agents : a.uuid = txn'[c].uuid
                  THEN /\ txn'[c].code \in {400, 500}
                       /\ agents' = agents
                  ELSE /\ txn'[c].code = 201
                       /\ \E a \in agents' :
                              /\ a.uuid = txn'[c].uuid
                              /\ a.status = "online"
                              /\ a.id \notin { b.id : b \in agents }
                              /\ agents' = agents \cup {a} ]_vars

\* Two registrations of the same uuid ran concurrently: both passed the
\* query, one was committed and the other failed on the unique index.
C19_Witness ==
    /\ Answered(201) # {}
    /\ Answered(500) # {}
    /\ \A c \in Callers : txn[c].uuid = "uuid-3"
    /\ Cardinality({ a \in agents : a.uuid = "uuid-3" }) = 1

----------------------------------------------------------------------------
PollOps == {"get_pending_releases", "get_pending_pipelines"}

\* C17: the rows a poll returns are in ascending order of priority, and rows
\* of equal priority in ascending order of creation time.
C17_PollOrdering ==
    (lastCall.op \in PollOps /\ lastCall.code = 200) =>
        \A i, j \in DOMAIN lastCall.rows :
            i < j =>
                \/ lastCall.rows[i].priority < lastCall.rows[j].priority
                \/ /\ lastCall.rows[i].priority = lastCall.rows[j].priority
                   /\ lastCall.rows[i].created_at <= lastCall.rows[j].created_at

\* A poll returned two pickups of equal priority created at different times
C17_Witness ==
    /\ lastCall.op \in PollOps
    /\ lastCall.code = 200
    /\ Len(lastCall.rows) = 2
    /\ lastCall.rows[1].priority = lastCall.rows[2].priority
    /\ lastCall.rows[1].created_at < lastCall.rows[2].created_at

----------------------------------------------------------------------------
\* C18: get_pending_releases and get_pending_pipelines change no row of the
\* agents, executions, stage executions and pickups: a pickup stays as it is,
\* whatever the number of polls, until another handler is called.
C18_PollReadOnly ==
    [][ lastCall'.op \in PollOps => UNCHANGED dbvars ]_vars

\* A poll returned a pickup that is still pending
C18_Witness ==
    /\ lastCall.op = "get_pending_releases"
    /\ lastCall.code = 200
    /\ Len(lastCall.rows) >= 1
    /\ \A i \in DOMAIN lastCall.rows :
           /\ lastCall.rows[i].status = "pending"
           /\ release_pickup[lastCall.rows[i].pickup_id].status = "pending"

----------------------------------------------------------------------------
\* The step is a cancel of the release pickup p
CancelOf(p) == lastCall'.op = "cancel_release_pickup" /\ lastCall'.id = p

\* C20: the administrative cancel moves a pickup that is pending or picked_up
\* to cancelled and has no effect on a pickup that is in_progress; once a
\* pickup is cancelled no poll returns it any more: after every later step it
\* is still not a pickup that the poll of its agent selects.
C20_CancelRemovesFromPoll ==
    [][ \A p \in Ids(release_pickup) :
          /\ (CancelOf(p) /\ release_pickup[p].status \in {"pending", "picked_up"})
                => release_pickup'[p].status = "cancelled"
          /\ (CancelOf(p) /\ release_pickup[p].status = "in_progress")
                => UNCHANGED dbvars
          /\ release_pickup[p].status = "cancelled"
                => ~PollFilter(release_pickup'[p], release_pickup'[p].agent_uuid)
      ]_vars

----------------------------------------------------------------------------
\* The step is the call op of the file-transfer pickup p, answered with code
TransferStep(op, p, code) ==
    /\ lastCall'.op = op
    /\ lastCall'.id = p
    /\ lastCall'.code = code

\* C21: acknowledge_download keeps the pickups as history: no step of it
\* removes a row of transfer_file_pickup, and after an acknowledgment that is
\* accepted the acknowledged row still exists, has acknowledged_at set and is
\* downloaded when the agent reported success and failed when it reported a
\* failure.
C21_AcknowledgeKeepsPickup ==
    [][ lastCall'.op = "acknowledge_download" =>
          /\ Ids(transfer_file_pickup) \subseteq Ids(transfer_file_pickup')
          /\ \A p \in Ids(transfer_file_pickup) :
                TransferStep("acknowledge_download", p, 200) =>
                   /\ transfer_file_pickup'[p].acknowledged_at # NULL
                   /\ transfer_file_pickup'[p].status =
                         IF lastCall'.data.success THEN "downloaded" ELSE "failed"
      ]_vars

\* A pickup that was downloaded has been acknowledged as failed
C21_Witness ==
    /\ lastCall.op = "acknowledge_download"
    /\ lastCall.code = 200
    /\ ~lastCall.data.success
    /\ lastCall.id \in Ids(transfer_file_pickup)
    /\ transfer_file_pickup[lastCall.id].status = "failed"
    /\ transfer_file_pickup[lastCall.id].downloaded_at # NULL
    /\ transfer_file_pickup[lastCall.id].acknowledged_at # NULL

----------------------------------------------------------------------------
\* The pickups that get_agent_downloads has listed
ListedDownloads == { lastCall'.rows[i].pickup_id : i \in DOMAIN lastCall'.rows }

\* C22: download_file is accepted only for a pending pickup, which it moves
\* to downloaded with downloaded_at set and which had not been downloaded
\* before; on a pickup that is downloaded or failed it answers 400 and
\* changes no row; get_agent_downloads lists exactly the pending pickups of
\* the agent.
C22_DownloadOnlyWhilePending ==
    [][ /\ \A p \in Ids(transfer_file_pickup) :
              /\ TransferStep("download_file", p, 200) =>
                    /\ transfer_file_pickup[p].status = "pending"
                    /\ transfer_file_pickup[p].downloaded_at = NULL
                    /\ transfer_file_pickup'[p].status = "downloaded"
                    /\ transfer_file_pickup'[p].downloaded_at # NULL
              /\ ( /\ lastCall'.op = "download_file"
                   /\ lastCall'.id = p
                   /\ transfer_file_pickup[p].status \in {"downloaded", "failed"} )
                    => /\ lastCall'.code = 400
                       /\ UNCHANGED trvars
        /\ lastCall'.op = "get_agent_downloads" =>
              ListedDownloads =
                 { p \in Ids(transfer_file_pickup) :
                     /\ transfer_file_pickup[p].agent_uuid = lastCall'.uuid
                     /\ transfer_file_pickup[p].status = "pending" }
      ]_vars

\* A second download of a pickup that was downloaded has been refused
C22_Witness ==
    /\ lastCall.op = "download_file"
    /\ lastCall.code = 400
    /\ lastCall.id \in Ids(transfer_file_pickup)
    /\ transfer_file_pickup[lastCall.id].status = "downloaded"
    /\ transfer_file_pickup[lastCall.id].downloaded_at # NULL

----------------------------------------------------------------------------
\* The pickups of the stage execution s
PickupsOfStage(s) ==
    { p \in Ids(release_pickup) : release_pickup[p].stage_execution_id = s }

\* The pickups of the pipeline execution e
PickupsOfPipelineExecution(e) ==
    { p \in Ids(pipeline_pickup) : pipeline_pickup[p].pipeline_execution_id = e }

\* C23: in every reachable state a pipeline execution has exactly one pickup
\* and a stage execution has at most one pickup, also when two approve calls
\* for the same stage overlap.
C23_ExecutionOwnsPickups ==
    /\ \A e \in DOMAIN pipeline_executions :
          Cardinality(PickupsOfPipelineExecution(e)) = 1
    /\ \A s \in DOMAIN stage_executions :
          Cardinality(PickupsOfStage(s)) <= 1

----------------------------------------------------------------------------
\* The step is the call op on the pickup p
CallOn(op, p) == lastCall'.op = op /\ lastCall'.id = p

\* The call op on a pickup of table old in one of the statuses is answered
\* 200 and leaves the pickup, in table new, in status target
AcceptedFrom(op, old, new, statuses, target) ==
    \A p \in Ids(old) :
        (CallOn(op, p) /\ old[p].status \in statuses)
            => /\ lastCall'.code = 200
               /\ new[p].status = target

\* The status complete writes
CompletedStatus == IF lastCall'.data.success THEN "completed" ELSE "failed"

\* C24: complete on a pickup that is pending or picked_up, and start on a
\* pickup that is pending, are accepted: the call answers 200 and the status
\* of the pickup is the target status of the call.
C24_OutOfOrderAccepted ==
    [][ /\ AcceptedFrom("complete_release_pickup", release_pickup, release_pickup',
                        {"pending", "picked_up"}, CompletedStatus)
        /\ AcceptedFrom("start_release_execution", release_pickup, release_pickup',
                        {"pending"}, "in_progress")
        /\ AcceptedFrom("complete_pipeline_pickup", pipeline_pickup, pipeline_pickup',
                        {"pending", "picked_up"}, CompletedStatus)
        /\ AcceptedFrom("start_pipeline_pickup", pipeline_pickup, pipeline_pickup',
                        {"pending"}, "in_progress")
      ]_vars

\* A release pickup was completed that was neither acknowledged nor started
C24_Witness ==
    /\ lastCall.op = "complete_release_pickup"
    /\ lastCall.code = 200
    /\ lastCall.data.success
    /\ lastCall.id \in Ids(release_pickup)
    /\ release_pickup[lastCall.id].status = "completed"
    /\ release_pickup[lastCall.id].picked_up_at = NULL
    /\ release_pickup[lastCall.id].started_at = NULL

----------------------------------------------------------------------------
\* The retry counters of the pickups of the table
RetryCounters(tbl) == [p \in DOMAIN tbl |-> <<tbl[p].retry_count, tbl[p].max_retries>>]

\* No pickup of table old that is failed is pending in table new
FailedStaysOutOfQueue(old, new) ==
    \A p \in Ids(old) :
        old[p].status = "failed" => (p \in Ids(new) => new[p].status # "pending")

\* The step is a complete call that reports a failure
FailureReported ==
    /\ lastCall'.op \in {"complete_release_pickup", "complete_pipeline_pickup"}
    /\ ~lastCall'.data.success

\* C25: a complete call that reports a failure adds no pickup and changes no
\* retry_count or max_retries; after every step every pickup has retry_count
\* 0, and a failed pickup is not pending again.
C25_NoAutomaticRetry ==
    [][ /\ FailureReported =>
              /\ RetryCounters(release_pickup') = RetryCounters(release_pickup)
              /\ RetryCounters(pipeline_pickup') = RetryCounters(pipeline_pickup)
        /\ \A p \in Ids(release_pickup') :
              release_pickup'[p].retry_count = DefaultRetryCount
        /\ \A p \in Ids(pipeline_pickup') :
              pipeline_pickup'[p].retry_count = DefaultRetryCount
        /\ FailedStaysOutOfQueue(release_pickup, release_pickup')
        /\ FailedStaysOutOfQueue(pipeline_pickup, pipeline_pickup')
      ]_vars

\* A release pickup with retries left has been completed as failed
C25_Witness ==
    /\ lastCall.op = "complete_release_pickup"
    /\ lastCall.code = 200
    /\ ~lastCall.data.success
    /\ lastCall.id \in Ids(release_pickup)
    /\ release_pickup[lastCall.id].status = "failed"
    /\ release_pickup[lastCall.id].retry_count < release_pickup[lastCall.id].max_retries

----------------------------------------------------------------------------
\* The stage execution is ready to run
ReadyToRun(stage_execution) ==
    /\ stage_execution.status = "pending"
    /\ stage_execution.approval_status \in {"not_required", "approved"}

\* The pickup is one that the poll of a registered agent returns
Pollable(pickup) ==
    /\ AgentByUuid(pickup.agent_uuid) # NoAgent
    /\ PollFilter(pickup, pickup.agent_uuid)

\* C26: in every reachable state a stage execution in status pending whose
\* approval is not required or given has a pickup, pending or picked_up, that
\* its agent can poll.
C26_NoStageStranded ==
    \A s \in DOMAIN stage_executions :
        ReadyToRun(stage_executions[s])
            => \E p \in PickupsOfStage(s) : Pollable(release_pickup[p])

----------------------------------------------------------------------------
\* The stage execution failed or was rejected
FailedOrRejected(stage_execution) ==
    \/ stage_execution.status = "failed"
    \/ stage_execution.approval_status = "rejected"

\* C27: in every reachable state a release execution that is succeeded has
\* all its stage executions terminal and none of them failed or rejected, and
\* a release execution that is failed has a stage execution that failed or
\* was rejected.
C27_ParentMatchesChildren ==
    \A r \in DOMAIN release_executions :
        LET stages == StagesOf(stage_executions, r)
        IN /\ release_executions[r].status = "succeeded" =>
                 \A s \in stages : /\ s.status \in StageTerminalStatuses
                                   /\ ~FailedOrRejected(s)
           /\ release_executions[r].status = "failed" =>
                 \E s \in stages : FailedOrRejected(s)

----------------------------------------------------------------------------
\* Every release execution created so far is succeeded or failed
AllReleasesTerminal ==
    \A r \in DOMAIN release_executions :
        release_executions[r].status \in {"succeeded", "failed"}

\* C28: with every pending approval eventually resolved and every agent
\* eventually acknowledging, starting and completing the pickups offered to
\* it, every release execution created by deploy_release eventually is
\* succeeded or failed and stays so.
C28_ReleaseEventuallyTerminal == <>[]AllReleasesTerminal

----------------------------------------------------------------------------
\* The stage execution was rejected
StageRejected(stage_execution) ==
    \/ stage_execution.approval_status = "rejected"
    \/ stage_execution.status = "cancelled"

\* Another stage execution of the release of s was rejected
SiblingRejected(s) ==
    \E o \in DOMAIN stage_executions :
        /\ o # s
        /\ stage_executions[o].release_execution_id =
               stage_executions[s].release_execution_id
        /\ StageRejected(stage_executions[o])

\* C29: approve_stage and reject_stage on the same stage resolve to one
\* outcome, also when they overlap: a stage execution that is rejected or
\* cancelled has no pickup, and the release execution of an approved stage
\* execution is failed only when another of its stages was rejected.
C29_ApproveRejectOneOutcome ==
    \A s \in DOMAIN stage_executions :
        /\ StageRejected(stage_executions[s]) => PickupsOfStage(s) = {}
        /\ ( /\ stage_executions[s].approval_status = "approved"
             /\ release_executions[stage_executions[s].release_execution_id].status
                    = "failed" )
              => SiblingRejected(s)

----------------------------------------------------------------------------
\* The lifecycle timestamps of the pickup match its status
StampsMatchStatus(pickup) ==
    /\ pickup.status = "picked_up" => pickup.picked_up_at # NULL
    /\ pickup.status = "in_progress" => pickup.started_at # NULL
    /\ pickup.status \in {"completed", "failed"} => pickup.completed_at # NULL
    /\ pickup.status = "pending" =>
          /\ pickup.picked_up_at = NULL
          /\ pickup.started_at = NULL
          /\ pickup.completed_at = NULL

\* In every state the timestamps of every pickup match its status
StampsMatch ==
    /\ \A p \in Ids(release_pickup) : StampsMatchStatus(release_pickup[p])
    /\ \A p \in Ids(pipeline_pickup) : StampsMatchStatus(pipeline_pickup[p])

\* The error message recorded on a failed release pickup is kept by the step
ErrorMessageRetained ==
    \A p \in Ids(release_pickup) \cap Ids(release_pickup') :
        ( /\ release_pickup[p].status = "failed"
          /\ release_pickup[p].error_message # NoneStr )
            => release_pickup'[p].error_message = release_pickup[p].error_message

\* C30: the lifecycle timestamps of a pickup match its status in every
\* reachable state (picked_up_at with picked_up, started_at with in_progress,
\* completed_at with completed and failed, none of them on a pending pickup),
\* and the error message recorded on a failed release pickup is kept by
\* every later operation.
C30_StampsAndErrorMessage ==
    [][ StampsMatch' /\ ErrorMessageRetained ]_vars

====
